---- MODULE Spec2Model ----
(***************************************************************************)
(* DIVINA backend: the booking-and-coupon transaction engine.              *)
(*                                                                         *)
(* The database tables are the shared state.  Every HTTP request runs in   *)
(* its own SQLAlchemy session: a row a request has loaded stays in the     *)
(* session's identity map with the values it had when it was read, and     *)
(* the ORM writes back absolute values computed from those (the UPDATE     *)
(* emitted for "schedule.booked_slots += slots" is                         *)
(* SET booked_slots = <loaded value + slots>).  No query uses              *)
(* with_for_update and no model has a version column, so each SELECT of a  *)
(* handler and its final commit are separate steps that other requests     *)
(* may interleave with.  The writes of one request (flush + commit) reach  *)
(* the other sessions together, at commit.                                 *)
(*                                                                         *)
(* Money is a whole number of ten-thousandths of a peso: prices are whole  *)
(* centavos and percentages whole numbers, so a percentage of a price is   *)
(* exact in this unit, and round(x, 2) rounds to the nearest centavo.      *)
(***************************************************************************)
EXTENDS Integers, Sequences, FiniteSets, TLC

VARIABLES
    schedules,    \* diving_schedules table: schedule id -> row
    bookings,     \* bookings table: sequence of rows, booking id = index
    coupons,      \* coupons table: coupon id -> row
    redemptions,  \* coupon_redemptions table: sequence of rows
    users,        \* users table, verification columns: dive operator id -> row
    stores,       \* stores table: sequence of rows, store id = index
    today,        \* the current date (datetime.now(timezone.utc).date())
    pc,           \* worker -> position of the request it is handling
    req,          \* worker -> the request being handled
    session,      \* worker -> rows loaded in the request's SQLAlchemy session
    resp,         \* worker -> the response returned
    rt            \* history: the last write was create(b) / create(b);cancel(b)

vars ==
    <<schedules, bookings, coupons, redemptions, users, stores, today, pc, req, session, resp, rt>>

db == <<schedules, bookings, coupons, redemptions, users, stores>>

-----------------------------------------------------------------------------
(* Bounds of the model *)

MaxBookings == 2      \* rows the bookings table may grow to
MaxDay == 1           \* days the clock may advance
MaxReqSlots == 2      \* largest "slots" value a request asks for
MaxRaceBookings == 3  \* rows the bookings table may grow to in the coupon race

Workers == {"w1", "w2"}          \* concurrently handled requests
RegularUsers == {1, 2}
AdminUser == 3
OperatorUser == 4
Users == RegularUsers \cup {AdminUser, OperatorUser}
ScheduleIds == {1, 2}
StoreIds == {1, 2}
CouponIds == {1}

NoneVal == -1         \* Python None in a nullable numeric column

Max(a, b) == IF a >= b THEN a ELSE b
Min(a, b) == IF a <= b THEN a ELSE b

\* an amount of n pesos, and of n centavos
Pesos(n) == n * 10000
Centavos(n) == n * 100

\* mutant: the amount is cut to whole centavos
Round2_Truncate(x) == Centavos(x \div 100)

\* round(x, 2): to the nearest centavo, a half to the even centavo
Round2(x) ==
    LET q == x \div 100
        r == x % 100
    IN  IF r < 50 THEN Centavos(q)
        ELSE IF r > 50 THEN Centavos(q + 1)
        ELSE IF q % 2 = 0 THEN Centavos(q) ELSE Centavos(q + 1)

\* x * (v / 100)
Percent(x, v) == (x \div 100) * v + ((x % 100) * v) \div 100

-----------------------------------------------------------------------------
(* Users and stores *)

role(u) ==
    IF u = AdminUser THEN "admin"
    ELSE IF u = OperatorUser THEN "dive_operator"
    ELSE "regular"

store_owner(st) == OperatorUser

DiveOperators == {OperatorUser}

is_store_owner_or_admin(u, st) == role(u) = "admin" \/ store_owner(st) = u

-----------------------------------------------------------------------------
(* Rows *)

NoSchedule ==
    [id |-> 0, store_id |-> 0, price |-> 0, max_slots |-> 0, booked_slots |-> 0,
     is_active |-> FALSE, is_cancelled |-> FALSE, date |-> 0]

NoBooking ==
    [id |-> 0, user_id |-> 0, schedule_id |-> 0, slots |-> 0, original_price |-> 0,
     discount_applied |-> 0, final_price |-> 0, is_cancelled |-> FALSE]

NoCoupon ==
    [id |-> 0, code |-> "", discount_type |-> "percentage", discount_value |-> 0,
     min_price |-> 0, max_discount |-> NoneVal, scope |-> "global", store_id |-> NoneVal,
     schedule_id |-> NoneVal, max_uses |-> NoneVal, uses_per_user |-> 1, total_used |-> 0,
     valid_until |-> NoneVal, is_active |-> FALSE]

\* Python None in a nullable text column; a text is a sequence of characters
NoneText == <<"None">>

\* the verification columns of a users row
NoUser ==
    [id |-> 0, verification_status |-> "", verified_at |-> NoneVal,
     rejection_reason |-> NoneText]

NoReq ==
    [op |-> "none", user |-> 0, schedule_id |-> 0, slots |-> 0, coupon_code |-> "",
     booking_id |-> 0, store_id |-> 0]

NoResp == [status |-> 0, error |-> "", available_slots |-> NoneVal, bookings |-> <<>>]

NoSession ==
    [schedule |-> NoSchedule, coupon |-> NoCoupon, booking |-> NoBooking, user |-> NoUser]

NoRt == [stage |-> "none", booking_id |-> 0, schedule_id |-> 0, pre |-> 0]

Response(status, error) == [NoResp EXCEPT !.status = status, !.error = error]

ResponseSlots(status, error, n) == [Response(status, error) EXCEPT !.available_slots = n]

\* a 200 whose body lists booking rows
ResponseList(rows) == [Response(200, "") EXCEPT !.bookings = rows]

-----------------------------------------------------------------------------
(* DivingSchedule *)

available_slots(s) == s.max_slots - s.booked_slots

is_fully_booked(s) == available_slots(s) = 0

-----------------------------------------------------------------------------
(* Coupon *)

is_expired(c, now) ==
    IF c.valid_until = NoneVal THEN FALSE ELSE now > c.valid_until

is_exhausted(c) ==
    IF c.max_uses = NoneVal THEN FALSE ELSE c.total_used >= c.max_uses

is_valid(c, now) == c.is_active /\ ~is_expired(c, now) /\ ~is_exhausted(c)

Truthy(x) == x # NoneVal /\ x # 0

\* mutant: the discount without the final clamp to the price
compute_discount_NoClamp(c, original_price) ==
    IF c.discount_type = "percentage"
    THEN LET d == Percent(original_price, c.discount_value)
         IN  IF Truthy(c.max_discount) THEN Min(d, c.max_discount) ELSE d
    ELSE c.discount_value

compute_discount(c, original_price) ==
    LET discount ==
            IF c.discount_type = "percentage"
            THEN LET d == Percent(original_price, c.discount_value)
                 IN  IF Truthy(c.max_discount) THEN Min(d, c.max_discount) ELSE d
            ELSE c.discount_value
    IN  Min(discount, original_price)

\* (data.get("coupon_code") or "").strip().upper()
Upper(code) ==
    CASE code = "dive20" -> "DIVE20"
      [] code = "nope" -> "NOPE"
      [] OTHER -> code

CouponByCode(code) ==
    IF \E i \in CouponIds : coupons[i].code = code
    THEN coupons[CHOOSE i \in CouponIds : coupons[i].code = code]
    ELSE NoCoupon

-----------------------------------------------------------------------------
(* Requests the model sends *)

CreateRequests ==
    { [op |-> "create_booking", user |-> u, schedule_id |-> s, slots |-> n,
       coupon_code |-> Upper(c), booking_id |-> 0, store_id |-> 0] :
        u \in RegularUsers, s \in ScheduleIds, n \in 1..MaxReqSlots, c \in {"", "dive20"} }

\* requests that fail validation, name no schedule or name no coupon
BadCreateRequests ==
    { [op |-> "create_booking", user |-> 1, schedule_id |-> s, slots |-> 1,
       coupon_code |-> "", booking_id |-> 0, store_id |-> 0] : s \in {0, 3} }
    \cup
    { [op |-> "create_booking", user |-> 1, schedule_id |-> 1, slots |-> 0,
       coupon_code |-> "", booking_id |-> 0, store_id |-> 0],
      [op |-> "create_booking", user |-> 1, schedule_id |-> 1, slots |-> 1,
       coupon_code |-> Upper("nope"), booking_id |-> 0, store_id |-> 0] }

CancelRequests ==
    { [op |-> "cancel_booking", user |-> u, schedule_id |-> 0, slots |-> 0,
       coupon_code |-> "", booking_id |-> b, store_id |-> 0] :
        u \in RegularUsers \cup {AdminUser}, b \in 1..(MaxBookings + 1) }

CancelScheduleRequests ==
    { [op |-> "cancel_schedule", user |-> u, schedule_id |-> x[2], slots |-> 0,
       coupon_code |-> "", booking_id |-> 0, store_id |-> x[1]] :
        u \in {1, AdminUser, OperatorUser}, x \in {<<1, 1>>, <<1, 2>>} }

InFlight(p) == pc[p] \notin {"idle", "done"}

InFlightCreates == Cardinality({p \in Workers : InFlight(p) /\ req[p].op = "create_booking"})

Finish(p, r) ==
    /\ pc' = [pc EXCEPT ![p] = "done"]
    /\ resp' = [resp EXCEPT ![p] = r]

-----------------------------------------------------------------------------
(* POST /api/bookings *)

\* mutant: the slot checks are left to a later step
CapacityCheck_NoSlotCheck(s, slots, now) ==
    IF s.is_cancelled THEN Response(400, "This schedule has been cancelled")
    ELSE IF ~s.is_active THEN Response(400, "This schedule is no longer available")
    ELSE IF s.date < now THEN Response(400, "Cannot book a past schedule")
    ELSE NoResp

\* the Capacity Tracker preconditions; NoResp when they all pass
CapacityCheck(s, slots, now) ==
    IF s.is_cancelled THEN Response(400, "This schedule has been cancelled")
    ELSE IF ~s.is_active THEN Response(400, "This schedule is no longer available")
    ELSE IF s.date < now THEN Response(400, "Cannot book a past schedule")
    ELSE IF is_fully_booked(s)
         THEN ResponseSlots(400, "This schedule is fully booked", 0)
    ELSE IF slots > available_slots(s)
         THEN ResponseSlots(400, "Only N slot(s) left", available_slots(s))
    ELSE NoResp

ValidateInput(r) ==
    IF r.schedule_id = 0 THEN Response(400, "schedule_id is required")
    ELSE IF r.slots < 1 THEN Response(400, "slots must be at least 1")
    ELSE NoResp

\* validation, DivingSchedule.query.get(schedule_id) and the capacity checks
CreateBooking_LoadSchedule(p, r) ==
    /\ pc[p] = "idle"
    /\  LET v == ValidateInput(r)
            found == r.schedule_id \in ScheduleIds
            s == IF found THEN schedules[r.schedule_id] ELSE NoSchedule
            c == CapacityCheck(s, r.slots, today)
        IN  /\ req' = [req EXCEPT ![p] = r]
            /\ IF v # NoResp THEN Finish(p, v) /\ UNCHANGED session
               ELSE IF ~found THEN Finish(p, Response(404, "Schedule not found"))
                                   /\ UNCHANGED session
               ELSE IF c # NoResp THEN Finish(p, c) /\ UNCHANGED session
               ELSE /\ pc' = [pc EXCEPT ![p] = "dup"]
                    /\ session' = [session EXCEPT ![p].schedule = s]
                    /\ UNCHANGED resp
    /\ UNCHANGED <<db, today, rt>>

\* Booking.query.filter_by(user_id, schedule_id, is_cancelled=False).first()
ExistingBooking(u, sid) ==
    \E i \in 1..Len(bookings) :
        /\ bookings[i].user_id = u
        /\ bookings[i].schedule_id = sid
        /\ ~bookings[i].is_cancelled

\* mutant: the slots are reserved and committed before the duplicate check
CreateBooking_DuplicateCheck_Reserving(p) ==
    /\ pc[p] = "dup"
    /\ schedules' = [schedules EXCEPT ![req[p].schedule_id].booked_slots =
                        session[p].schedule.booked_slots + req[p].slots]
    /\ IF ExistingBooking(req[p].user, req[p].schedule_id)
       THEN Finish(p, Response(409, "You have already booked this schedule"))
       ELSE /\ pc' = [pc EXCEPT ![p] =
                        IF req[p].coupon_code # "" THEN "coupon" ELSE "flush"]
            /\ UNCHANGED resp
    /\ UNCHANGED <<bookings, coupons, redemptions, users, stores, today, rt, req, session>>

CreateBooking_DuplicateCheck(p) ==
    /\ pc[p] = "dup"
    /\ IF ExistingBooking(req[p].user, req[p].schedule_id)
       THEN Finish(p, Response(409, "You have already booked this schedule"))
       ELSE /\ pc' = [pc EXCEPT ![p] =
                        IF req[p].coupon_code # "" THEN "coupon" ELSE "flush"]
            /\ UNCHANGED resp
    /\ UNCHANGED <<db, today, rt, req, session>>

\* mutant: the minimum price is checked before the scope
CouponCheck_MinPriceFirst(c, s, original_price, now) ==
    IF c = NoCoupon THEN Response(404, "Coupon not found")
    ELSE IF ~is_valid(c, now)
         THEN Response(400, "This coupon is invalid, expired, or exhausted")
    ELSE IF Truthy(c.min_price) /\ original_price < c.min_price
         THEN Response(400, "Minimum booking required")
    ELSE IF c.scope = "store" /\ s.store_id # c.store_id
         THEN Response(400, "This coupon is only valid for a specific store")
    ELSE IF c.scope = "schedule" /\ s.id # c.schedule_id
         THEN Response(400, "This coupon is only valid for a specific schedule")
    ELSE NoResp

\* the checks on the coupon row; NoResp when they all pass
CouponCheck(c, s, original_price, now) ==
    IF c = NoCoupon THEN Response(404, "Coupon not found")
    ELSE IF ~is_valid(c, now)
         THEN Response(400, "This coupon is invalid, expired, or exhausted")
    ELSE IF c.scope = "store" /\ s.store_id # c.store_id
         THEN Response(400, "This coupon is only valid for a specific store")
    ELSE IF c.scope = "schedule" /\ s.id # c.schedule_id
         THEN Response(400, "This coupon is only valid for a specific schedule")
    ELSE IF Truthy(c.min_price) /\ original_price < c.min_price
         THEN Response(400, "Minimum booking required")
    ELSE NoResp

OriginalPrice(s, slots) == s.price * slots

\* Coupon.query.filter_by(code=coupon_code).first() and the checks on it
CreateBooking_LoadCoupon(p) ==
    /\ pc[p] = "coupon"
    /\ LET c == CouponByCode(req[p].coupon_code)
           s == session[p].schedule
           r == CouponCheck(c, s, OriginalPrice(s, req[p].slots), today)
       IN  IF r # NoResp
           THEN Finish(p, r) /\ UNCHANGED session
           ELSE /\ pc' = [pc EXCEPT ![p] = "uses"]
                /\ session' = [session EXCEPT ![p].coupon = c]
                /\ UNCHANGED resp
    /\ UNCHANGED <<db, today, rt, req>>

\* mutant: the redemptions of cancelled bookings are not counted
UserUses_ActiveOnly(cid, u) ==
    Cardinality({i \in 1..Len(redemptions) :
                    /\ redemptions[i].coupon_id = cid
                    /\ redemptions[i].user_id = u
                    /\ ~bookings[redemptions[i].booking_id].is_cancelled})

\* CouponRedemption.query.filter_by(coupon_id, user_id).count()
UserUses(cid, u) ==
    Cardinality({i \in 1..Len(redemptions) :
                    redemptions[i].coupon_id = cid /\ redemptions[i].user_id = u})

UsesLeft(user_uses, c) == ~(user_uses >= c.uses_per_user)

CreateBooking_CountUserUses(p) ==
    /\ pc[p] = "uses"
    /\ LET c == session[p].coupon
       IN  IF ~UsesLeft(UserUses(c.id, req[p].user), c)
           THEN Finish(p, Response(400,
                    "You have already used this coupon the maximum number of times"))
           ELSE pc' = [pc EXCEPT ![p] = "flush"] /\ UNCHANGED resp
    /\ UNCHANGED <<db, today, rt, req, session>>

\* schedule.booked_slots += slots, on the row the session loaded
ReservedSlots(s, slots) == s.booked_slots + slots

\* coupon.total_used += 1, on the row the session loaded
IncrementedUses(c) == c.total_used + 1

\* what a request is answered when the database raises: the exception leaves the
\* handler, Flask answers 500 and the session's transaction is rolled back when the
\* session is removed
ServerError == Response(500, "Internal Server Error")

\* mutant: the flush makes the reservation visible to the other sessions
CreateBooking_Flush_Autocommit(p) ==
    /\ pc[p] = "flush"
    /\ schedules' = [schedules EXCEPT ![req[p].schedule_id].booked_slots =
                        session[p].schedule.booked_slots + req[p].slots]
    /\ \/ pc' = [pc EXCEPT ![p] = "commit"] /\ UNCHANGED resp
       \/ Finish(p, ServerError)
    /\ UNCHANGED <<bookings, coupons, redemptions, users, stores, today, rt, req, session>>

\* Booking(...), schedule.booked_slots += slots, db.session.add, db.session.flush():
\* the INSERT and the UPDATE are sent inside the session's transaction, which no
\* other session sees before the commit; the flush may raise
CreateBooking_Flush(p) ==
    /\ pc[p] = "flush"
    /\ \/ pc' = [pc EXCEPT ![p] = "commit"] /\ UNCHANGED resp
       \/ Finish(p, ServerError)
    /\ UNCHANGED <<db, today, rt, req, session>>

\* the rows the committed transaction writes, and the 201 response
CreateBooking_Commit_Writes(p) ==
    /\ LET r == req[p]
           s == session[p].schedule
           c == session[p].coupon
           original_price == OriginalPrice(s, r.slots)
           discount_applied ==
               IF c # NoCoupon THEN compute_discount(c, original_price) ELSE 0
           final_price ==
               IF c # NoCoupon THEN Round2(original_price - discount_applied)
               ELSE original_price
           booking ==
               [id |-> Len(bookings) + 1, user_id |-> r.user,
                schedule_id |-> r.schedule_id, slots |-> r.slots,
                original_price |-> original_price,
                discount_applied |-> discount_applied,
                final_price |-> final_price, is_cancelled |-> FALSE]
           redemption ==
               [coupon_id |-> c.id, user_id |-> r.user, booking_id |-> booking.id,
                original_price |-> original_price,
                discount_applied |-> discount_applied, final_price |-> final_price]
       IN  /\ schedules' = [schedules EXCEPT
                              ![r.schedule_id].booked_slots = ReservedSlots(s, r.slots)]
           /\ bookings' = Append(bookings, booking)
           /\ IF c # NoCoupon
              THEN /\ coupons' = [coupons EXCEPT ![c.id].total_used = IncrementedUses(c)]
                   /\ redemptions' = Append(redemptions, redemption)
              ELSE UNCHANGED <<coupons, redemptions>>
           /\ rt' = [stage |-> "created", booking_id |-> booking.id,
                     schedule_id |-> r.schedule_id,
                     pre |-> schedules[r.schedule_id].booked_slots]
    /\ Finish(p, Response(201, "Booking confirmed!"))

\* the redemption, coupon.total_used += 1 and db.session.commit(): the writes of the
\* transaction reach the tables together, or the commit raises and none does
CreateBooking_Commit(p) ==
    /\ pc[p] = "commit"
    /\ \/ CreateBooking_Commit_Writes(p)
       \/ Finish(p, ServerError) /\ UNCHANGED <<db, rt>>
    /\ UNCHANGED <<users, stores, today, req, session>>

-----------------------------------------------------------------------------
(* DELETE /api/bookings/<id> *)

\* mutant: no AlreadyCancelled guard
CancelCheck_NoGuard(u, booking) ==
    IF booking = NoBooking THEN Response(404, "Booking not found")
    ELSE IF role(u) # "admin" /\ booking.user_id # u THEN Response(403, "Access denied")
    ELSE NoResp

\* mutant: the AlreadyCancelled check precedes the ownership check
CancelCheck_CancelledFirst(u, booking) ==
    IF booking = NoBooking THEN Response(404, "Booking not found")
    ELSE IF booking.is_cancelled THEN Response(400, "Booking is already cancelled")
    ELSE IF role(u) # "admin" /\ booking.user_id # u THEN Response(403, "Access denied")
    ELSE NoResp

CancelCheck(u, booking) ==
    IF booking = NoBooking THEN Response(404, "Booking not found")
    ELSE IF role(u) # "admin" /\ booking.user_id # u THEN Response(403, "Access denied")
    ELSE IF booking.is_cancelled THEN Response(400, "Booking is already cancelled")
    ELSE NoResp

\* Booking.query.get(booking_id) and the checks on the row
CancelBooking_LoadBooking(p, r) ==
    /\ pc[p] = "idle"
    /\  LET booking == IF r.booking_id \in 1..Len(bookings)
                       THEN bookings[r.booking_id] ELSE NoBooking
            c == CancelCheck(r.user, booking)
        IN  /\ req' = [req EXCEPT ![p] = r]
            /\ IF c # NoResp
               THEN Finish(p, c) /\ UNCHANGED session
               ELSE /\ pc' = [pc EXCEPT ![p] = "cx_schedule"]
                    /\ session' = [session EXCEPT ![p].booking = booking]
                    /\ UNCHANGED resp
    /\ UNCHANGED <<db, today, rt>>

\* booking.schedule: the lazy load of the relationship
CancelBooking_LoadSchedule(p) ==
    /\ pc[p] = "cx_schedule"
    /\ session' = [session EXCEPT ![p].schedule = schedules[session[p].booking.schedule_id]]
    /\ pc' = [pc EXCEPT ![p] = "cx_commit"]
    /\ UNCHANGED <<db, today, rt, req, resp>>

\* mutant: the release without the floor at zero
ReleasedSlots_NoFloor(s, slots) == s.booked_slots - slots

\* mutant: the release of one slot, whatever the booking's slots
ReleasedSlots_One(s, slots) == Max(0, s.booked_slots - 1)

\* max(0, booking.schedule.booked_slots - booking.slots)
ReleasedSlots(s, slots) == Max(0, s.booked_slots - slots)

\* mutant: the cancellation also clears the booking's slots
CancelBooking_Commit_ClearingSlots(p) ==
    /\ pc[p] = "cx_commit"
    /\ LET b == session[p].booking
           s == session[p].schedule
       IN  /\ schedules' = [schedules EXCEPT
                              ![s.id].booked_slots = ReleasedSlots(s, b.slots)]
           /\ bookings' = [bookings EXCEPT ![b.id].is_cancelled = TRUE,
                                           ![b.id].slots = 0]
           /\ rt' = IF rt.stage = "created" /\ rt.booking_id = b.id
                    THEN [rt EXCEPT !.stage = "cancelled"]
                    ELSE NoRt
    /\ Finish(p, Response(200, "Booking cancelled successfully"))
    /\ UNCHANGED <<coupons, redemptions, users, stores, today, req, session>>

\* mutant: the cancellation also deletes the booking's redemption
CancelBooking_Commit_DeletingRedemption(p) ==
    /\ pc[p] = "cx_commit"
    /\ LET b == session[p].booking
           s == session[p].schedule
           kept(r) == r.booking_id # b.id
       IN  /\ schedules' = [schedules EXCEPT
                              ![s.id].booked_slots = ReleasedSlots(s, b.slots)]
           /\ bookings' = [bookings EXCEPT ![b.id].is_cancelled = TRUE]
           /\ redemptions' = SelectSeq(redemptions, kept)
           /\ rt' = IF rt.stage = "created" /\ rt.booking_id = b.id
                    THEN [rt EXCEPT !.stage = "cancelled"]
                    ELSE NoRt
    /\ Finish(p, Response(200, "Booking cancelled successfully"))
    /\ UNCHANGED <<coupons, users, stores, today, req, session>>

\* the two assignments and db.session.commit()
CancelBooking_Commit(p) ==
    /\ pc[p] = "cx_commit"
    /\ LET b == session[p].booking
           s == session[p].schedule
       IN  /\ schedules' = [schedules EXCEPT
                              ![s.id].booked_slots = ReleasedSlots(s, b.slots)]
           /\ bookings' = [bookings EXCEPT ![b.id].is_cancelled = TRUE]
           /\ rt' = IF rt.stage = "created" /\ rt.booking_id = b.id
                    THEN [rt EXCEPT !.stage = "cancelled"]
                    ELSE NoRt
    /\ Finish(p, Response(200, "Booking cancelled successfully"))
    /\ UNCHANGED <<coupons, redemptions, users, stores, today, req, session>>

-----------------------------------------------------------------------------
(* DELETE /api/stores/<id>/schedules/<sid> *)

CancelScheduleCheck(u, store_id, s) ==
    IF store_id \notin StoreIds THEN Response(404, "Store not found")
    ELSE IF s = NoSchedule THEN Response(404, "Schedule not found")
    ELSE IF ~is_store_owner_or_admin(u, store_id) THEN Response(403, "Access denied")
    ELSE IF s.is_cancelled THEN Response(400, "Schedule is already cancelled")
    ELSE NoResp

\* Store.query.get, DivingSchedule.query.filter_by(id, store_id).first(), the checks
CancelSchedule_Load(p, r) ==
    /\ pc[p] = "idle"
    /\  LET s == IF /\ r.schedule_id \in ScheduleIds
                    /\ schedules[r.schedule_id].store_id = r.store_id
                 THEN schedules[r.schedule_id] ELSE NoSchedule
            c == CancelScheduleCheck(r.user, r.store_id, s)
        IN  /\ req' = [req EXCEPT ![p] = r]
            /\ IF c # NoResp
               THEN Finish(p, c) /\ UNCHANGED session
               ELSE /\ pc' = [pc EXCEPT ![p] = "cs_commit"]
                    /\ session' = [session EXCEPT ![p].schedule = s]
                    /\ UNCHANGED resp
    /\ UNCHANGED <<db, today, rt>>

\* is_cancelled = True, is_active = False, commit
CancelSchedule_Commit(p) ==
    /\ pc[p] = "cs_commit"
    /\ schedules' = [schedules EXCEPT ![session[p].schedule.id].is_cancelled = TRUE,
                                      ![session[p].schedule.id].is_active = FALSE]
    /\ rt' = NoRt
    /\ Finish(p, Response(200, "Schedule has been cancelled"))
    /\ UNCHANGED <<bookings, coupons, redemptions, users, stores, today, req, session>>

-----------------------------------------------------------------------------
(* GET /api/bookings *)

\* the values of ?status= sent: absent, active, cancelled, and one the handler ignores
ListStatuses == {"", "active", "cancelled", "expired"}

ListRequests ==
    { [op |-> "get_all_bookings", user |-> u, schedule_id |-> 0, slots |-> 0,
       coupon_code |-> "", booking_id |-> 0, store_id |-> 0, status |-> st] :
        u \in RegularUsers \cup {AdminUser}, st \in ListStatuses }

\* mutant: the query is not restricted to the caller's bookings
InQuery_AnyOwner(b, u, status) ==
    /\ status = "active" => ~b.is_cancelled
    /\ status = "cancelled" => b.is_cancelled

\* the filters of the query: the caller's rows unless the caller is an admin, and
\* is_cancelled = False / True for status active / cancelled
InQuery(b, u, status) ==
    /\ role(u) = "admin" \/ b.user_id = u
    /\ status = "active" => ~b.is_cancelled
    /\ status = "cancelled" => b.is_cancelled

\* query.order_by(Booking.created_at.desc()).all() over the first n rows: rows are
\* inserted in the order of their ids, so the newest row is the one with the highest id
RECURSIVE NewestFirst(_, _, _)
NewestFirst(u, status, n) ==
    IF n = 0 THEN <<>>
    ELSE IF InQuery(bookings[n], u, status)
         THEN <<bookings[n]>> \o NewestFirst(u, status, n - 1)
         ELSE NewestFirst(u, status, n - 1)

\* the handler: one SELECT, the rows serialised, no commit (what to_dict changes on a
\* loaded row is discarded with the session)
GetAllBookings(p, r) ==
    /\ pc[p] = "idle"
    /\ req' = [req EXCEPT ![p] = r]
    /\ Finish(p, ResponseList(NewestFirst(r.user, r.status, Len(bookings))))
    /\ UNCHANGED <<db, today, rt, session>>

-----------------------------------------------------------------------------
(* PUT /api/admin/coupons/<id> *)

\* a value of the JSON body: a number, a numeral in a string, true/false or null
Json(type, n) == [type |-> type, n |-> n]

\* Python truthiness of a JSON value (every string sent is non-empty)
JsonTruthy(v) ==
    CASE v.type = "null" -> FALSE
      [] v.type = "string" -> TRUE
      [] OTHER -> v.n # 0

\* float(v), int(v)
ToNumber(v) == v.n

\* the discount_value column for a value of the body: a percentage as it is, an
\* amount in pesos in the unit of the model
StoredValue(type, v) ==
    IF type = "percentage" THEN ToNumber(v) ELSE Pesos(ToNumber(v))

\* bodies sent: {"max_discount": "0"} and {"is_active": false}
UpdatePayloads ==
    { [key |-> "max_discount", val |-> Json("string", 0)],
      [key |-> "is_active", val |-> Json("bool", 0)] }

UpdateCouponRequest(u, i, d) ==
    [op |-> "update_coupon", user |-> u, schedule_id |-> 0, slots |-> 0,
     coupon_code |-> "", booking_id |-> 0, store_id |-> 0, coupon_id |-> i, data |-> d]

\* the admin updates coupon 1; a regular user tries to; the admin names no coupon
UpdateCouponRequests ==
    { UpdateCouponRequest(AdminUser, 1, d) : d \in UpdatePayloads }
    \cup
    { UpdateCouponRequest(u[1], u[2], [key |-> "is_active", val |-> Json("bool", 0)]) :
        u \in {<<1, 1>>, <<AdminUser, 2>>} }

\* the assignments of update_coupon for the key the body holds
ApplyUpdate(c, data) ==
    CASE data.key = "discount_value" ->
            [c EXCEPT !.discount_value = StoredValue(c.discount_type, data.val)]
      [] data.key = "min_price" -> [c EXCEPT !.min_price = Pesos(ToNumber(data.val))]
      [] data.key = "max_discount" ->
            [c EXCEPT !.max_discount =
                IF JsonTruthy(data.val) THEN Pesos(ToNumber(data.val)) ELSE NoneVal]
      [] data.key = "max_uses" ->
            [c EXCEPT !.max_uses =
                IF JsonTruthy(data.val) THEN ToNumber(data.val) ELSE NoneVal]
      [] data.key = "uses_per_user" -> [c EXCEPT !.uses_per_user = ToNumber(data.val)]
      [] data.key = "is_active" -> [c EXCEPT !.is_active = JsonTruthy(data.val)]
      [] OTHER -> c

\* admin_required and Coupon.query.get(coupon_id)
UpdateCoupon_Load(p, r) ==
    /\ pc[p] = "idle"
    /\ req' = [req EXCEPT ![p] = r]
    /\ IF role(r.user) # "admin"
       THEN Finish(p, Response(403, "Admin access required")) /\ UNCHANGED session
       ELSE IF r.coupon_id \notin CouponIds \/ coupons[r.coupon_id] = NoCoupon
       THEN Finish(p, Response(404, "Coupon not found")) /\ UNCHANGED session
       ELSE /\ pc' = [pc EXCEPT ![p] = "uc_commit"]
            /\ session' = [session EXCEPT ![p].coupon = coupons[r.coupon_id]]
            /\ UNCHANGED resp
    /\ UNCHANGED <<db, today, rt>>

\* the assignments and db.session.commit(): the UPDATE sets the columns whose value
\* the handler changed on the row it loaded, and no other column
UpdateCoupon_Commit(p) ==
    /\ pc[p] = "uc_commit"
    /\ LET loaded == session[p].coupon
       IN  coupons' = IF ApplyUpdate(loaded, req[p].data) = loaded
                      THEN coupons
                      ELSE [coupons EXCEPT ![loaded.id] = ApplyUpdate(@, req[p].data)]
    /\ Finish(p, Response(200, "Coupon updated"))
    /\ UNCHANGED <<schedules, bookings, redemptions, users, stores, today, rt, req, session>>

-----------------------------------------------------------------------------
(* POST /api/admin/coupons and POST /api/admin/coupons/generate *)

\* the discount_type and discount_value of a request body
CouponData(type, value) == [discount_type |-> type, discount_value |-> value]

CouponRequest(op, u, code, d) ==
    [op |-> op, user |-> u, schedule_id |-> 0, slots |-> 0, coupon_code |-> code,
     booking_id |-> 0, store_id |-> 0, data |-> d]

\* the code an admin chooses and the code generate_coupon_code draws
ChosenCode == "DIVE20"
GeneratedCode == "X7KM2NQP"

\* the ids of the rows the coupons table has room for
FreeCouponIds == {i \in CouponIds : coupons[i] = NoCoupon}

\* Coupon(...): the columns the body does not name take the values the handlers give
\* them (min_price 0, no max_discount, global scope, one use per user, active)
NewCoupon(id, code, d, max_uses) ==
    [NoCoupon EXCEPT !.id = id, !.code = code, !.discount_type = d.discount_type,
                     !.discount_value = StoredValue(d.discount_type, d.discount_value),
                     !.max_uses = max_uses, !.is_active = TRUE]

\* the checks of create_coupon; NoResp when they all pass
CreateCouponCheck(d, exists) ==
    IF exists THEN Response(409, "Coupon code already exists")
    ELSE IF d.discount_type \notin {"percentage", "fixed"}
         THEN Response(400, "discount_type must be 'percentage' or 'fixed'")
    ELSE IF d.discount_value.type = "null"
         THEN Response(400, "discount_value is required")
    ELSE IF /\ d.discount_type = "percentage"
            /\ ~(0 < ToNumber(d.discount_value) /\ ToNumber(d.discount_value) <= 100)
         THEN Response(400, "Percentage discount must be between 0 and 100")
    ELSE IF d.discount_type = "fixed" /\ ToNumber(d.discount_value) <= 0
         THEN Response(400, "Fixed discount must be greater than 0")
    ELSE NoResp

\* create_coupon: admin_required, the lookup of the code, the checks, the INSERT
CreateCoupon(p, r) ==
    /\ pc[p] = "idle"
    /\ req' = [req EXCEPT ![p] = r]
    /\ LET c == CreateCouponCheck(r.data, CouponByCode(r.coupon_code) # NoCoupon)
       IN  IF role(r.user) # "admin"
           THEN Finish(p, Response(403, "Admin access required")) /\ UNCHANGED coupons
           ELSE IF c # NoResp
           THEN Finish(p, c) /\ UNCHANGED coupons
           ELSE /\ FreeCouponIds # {}
                /\ LET id == CHOOSE i \in FreeCouponIds : \A j \in FreeCouponIds : i <= j
                   IN  coupons' = [coupons EXCEPT
                                     ![id] = NewCoupon(id, r.coupon_code, r.data, NoneVal)]
                /\ Finish(p, Response(201, "Coupon created successfully"))
    /\ UNCHANGED <<schedules, bookings, redemptions, users, stores, today, rt, session>>

\* generate_bulk_coupons with count 1: admin_required, no check of discount_type or
\* discount_value, max_uses 1 unless given; a code that is already taken is skipped
GenerateBulkCoupons(p, r) ==
    /\ pc[p] = "idle"
    /\ req' = [req EXCEPT ![p] = r]
    /\ IF role(r.user) # "admin"
       THEN Finish(p, Response(403, "Admin access required")) /\ UNCHANGED coupons
       ELSE /\ IF CouponByCode(r.coupon_code) # NoCoupon
               THEN UNCHANGED coupons
               ELSE /\ FreeCouponIds # {}
                    /\ LET id == CHOOSE i \in FreeCouponIds :
                                    \A j \in FreeCouponIds : i <= j
                       IN  coupons' = [coupons EXCEPT
                                         ![id] = NewCoupon(id, r.coupon_code, r.data, 1)]
            /\ Finish(p, Response(201, "coupons generated successfully"))
    /\ UNCHANGED <<schedules, bookings, redemptions, users, stores, today, rt, session>>

-----------------------------------------------------------------------------
(* Dive operator verification: POST /api/auth/signup,                      *)
(* POST /api/admin/dive-operators/<id>/approve, /reject and /reset,        *)
(* POST /api/stores                                                        *)

MaxStores == 2        \* rows the stores table may grow to

\* mutant: the text is taken as sent
Strip_AsSent(s) == s

RECURSIVE LStrip(_)
LStrip(s) == IF s # <<>> /\ Head(s) = " " THEN LStrip(Tail(s)) ELSE s

RECURSIVE RStrip(_)
RStrip(s) == IF s # <<>> /\ s[Len(s)] = " " THEN RStrip(SubSeq(s, 1, Len(s) - 1)) ELSE s

\* (value or "").strip()
Strip(s) == IF s = NoneText THEN <<>> ELSE RStrip(LStrip(s))

\* text: the "reason" or the "name" of the body; files: both documents are uploaded
OperatorRequest(op, u, target, text, files, latitude) ==
    [op |-> op, user |-> u, schedule_id |-> 0, slots |-> 0, coupon_code |-> "",
     booking_id |-> 0, store_id |-> 0, target |-> target, text |-> text, files |-> files,
     latitude |-> latitude]

\* User.verification_status == "approved"
is_approved(u) == u.verification_status = "approved"

\* the row jwt_required puts in request.current_user: the users row of a dive
\* operator, and for the other users a row without verification columns
CurrentUser(u) == IF u \in DiveOperators THEN users[u] ELSE [NoUser EXCEPT !.id = u]

\* User.query.filter_by(id=user_id, role="dive_operator").first()
FindOperator(id) == IF id \in DiveOperators THEN users[id] ELSE NoUser

\* the UPDATE of a commit: the columns whose value the handler changed on the row
\* it loaded, and no other column
UserUpdate(row, loaded, new) ==
    [f \in DOMAIN row |-> IF new[f] # loaded[f] THEN new[f] ELSE row[f]]

\* _signup_dive_operator: the account is created pending
SignupDiveOperator(p, r) ==
    /\ pc[p] = "idle"
    /\ req' = [req EXCEPT ![p] = r]
    /\ IF users[r.target] # NoUser
       THEN Finish(p, Response(409, "Email already registered")) /\ UNCHANGED users
       ELSE IF ~r.files
       THEN /\ Finish(p, Response(400, "bir_document is required for dive operator registration"))
            /\ UNCHANGED users
       ELSE /\ users' = [users EXCEPT ![r.target] =
                            [id |-> r.target, verification_status |-> "pending",
                             verified_at |-> NoneVal, rejection_reason |-> NoneText]]
            /\ Finish(p, Response(201, "Dive operator account created"))
    /\ UNCHANGED <<schedules, bookings, coupons, redemptions, stores, today, rt, session>>

\* admin_required and the SELECT of the three admin handlers, then the checks of each
AdminCheck(r, user) ==
    IF role(r.user) # "admin" THEN Response(403, "Admin access required")
    ELSE IF user = NoUser THEN Response(404, "Dive operator not found")
    ELSE IF r.op = "approve_dive_operator" /\ is_approved(user)
    THEN Response(400, "Dive operator is already approved")
    ELSE IF r.op = "reject_dive_operator" /\ Strip(r.text) = <<>>
    THEN Response(400, "A rejection reason is required")
    ELSE NoResp

Operator_Load(p, r) ==
    /\ pc[p] = "idle"
    /\ LET user == FindOperator(r.target)
           c == AdminCheck(r, user)
       IN  /\ req' = [req EXCEPT ![p] = r]
           /\ IF c # NoResp
              THEN Finish(p, c) /\ UNCHANGED session
              ELSE /\ pc' = [pc EXCEPT ![p] = "op_commit"]
                   /\ session' = [session EXCEPT ![p].user = user]
                   /\ UNCHANGED resp
    /\ UNCHANGED <<db, today, rt>>

\* the assignments of approve_dive_operator
Approved(user, now) ==
    [user EXCEPT !.verification_status = "approved", !.verified_at = now,
                 !.rejection_reason = NoneText]

\* the assignments of reject_dive_operator
Rejected(user, reason) ==
    [user EXCEPT !.verification_status = "rejected", !.rejection_reason = reason,
                 !.verified_at = NoneVal]

\* the assignments of reset_dive_operator
Pending(user) ==
    [user EXCEPT !.verification_status = "pending", !.rejection_reason = NoneText,
                 !.verified_at = NoneVal]

Operator_Commit(p, new, message) ==
    /\ pc[p] = "op_commit"
    /\ LET loaded == session[p].user
       IN  users' = [users EXCEPT ![loaded.id] = UserUpdate(@, loaded, new)]
    /\ Finish(p, Response(200, message))
    /\ UNCHANGED <<schedules, bookings, coupons, redemptions, stores, today, rt, req, session>>

ApproveDiveOperator_Commit(p) ==
    /\ req[p].op = "approve_dive_operator"
    /\ Operator_Commit(p, Approved(session[p].user, today), "approved")

RejectDiveOperator_Commit(p) ==
    /\ req[p].op = "reject_dive_operator"
    /\ Operator_Commit(p, Rejected(session[p].user, Strip(req[p].text)), "rejected")

ResetDiveOperator_Commit(p) ==
    /\ req[p].op = "reset_dive_operator"
    /\ Operator_Commit(p, Pending(session[p].user), "reset to pending")

\* jwt_required: User.query.get(payload["sub"])
CreateStore_Load(p, r) ==
    /\ pc[p] = "idle"
    /\ req' = [req EXCEPT ![p] = r]
    /\ IF CurrentUser(r.user) = NoUser
       THEN Finish(p, Response(401, "User not found or inactive")) /\ UNCHANGED session
       ELSE /\ pc' = [pc EXCEPT ![p] = "st_commit"]
            /\ session' = [session EXCEPT ![p].user = CurrentUser(r.user)]
            /\ UNCHANGED resp
    /\ UNCHANGED <<db, today, rt>>

\* the checks of create_store on the loaded user and the request body
CreateStoreCheck(user, r) ==
    IF role(user.id) = "regular" THEN Response(403, "Only dive operators can create stores")
    ELSE IF role(user.id) = "dive_operator" /\ ~is_approved(user)
    THEN Response(403, "Your dive operator account must be approved before creating a store")
    ELSE IF Strip(r.text) = <<>> THEN Response(400, "Store name is required")
    ELSE IF r.latitude # NoneVal /\ ~(-90 <= r.latitude /\ r.latitude <= 90)
    THEN Response(400, "Latitude must be between -90 and 90")
    ELSE NoResp

\* the checks, Store(owner_id=user.id, ...), commit
CreateStore_Commit(p) ==
    /\ pc[p] = "st_commit"
    /\ LET c == CreateStoreCheck(session[p].user, req[p])
       IN  IF c # NoResp
           THEN Finish(p, c) /\ UNCHANGED stores
           ELSE /\ stores' = Append(stores, [id |-> Len(stores) + 1,
                                             owner_id |-> session[p].user.id,
                                             name |-> Strip(req[p].text)])
                /\ Finish(p, Response(201, "Store created successfully"))
    /\ UNCHANGED <<schedules, bookings, coupons, redemptions, users, today, rt, req, session>>

-----------------------------------------------------------------------------
(* The request ends: the response is sent and the session is removed *)

Return(p) ==
    /\ pc[p] = "done"
    /\ pc' = [pc EXCEPT ![p] = "idle"]
    /\ req' = [req EXCEPT ![p] = NoReq]
    /\ session' = [session EXCEPT ![p] = NoSession]
    /\ resp' = [resp EXCEPT ![p] = NoResp]
    /\ UNCHANGED <<db, today, rt>>

\* a day passes
Tick ==
    /\ today < 1 + MaxDay
    /\ today' = today + 1
    /\ UNCHANGED <<db, pc, req, session, resp, rt>>

-----------------------------------------------------------------------------
(* Initial state: day 1, two schedules dated day 1, no bookings, and one    *)
(* coupon DIVE20 created by the admin with one of a few settings.          *)

InitSchedules ==
    [s \in ScheduleIds |->
        [id |-> s, store_id |-> s, price |-> IF s = 1 THEN Pesos(1000) ELSE Pesos(400),
         max_slots |-> 2, booked_slots |-> 0, is_active |-> TRUE,
         is_cancelled |-> FALSE, date |-> 1]]

Dive20 ==
    [id |-> 1, code |-> "DIVE20", discount_type |-> "percentage", discount_value |-> 20,
     min_price |-> Pesos(500), max_discount |-> Pesos(150), scope |-> "global", store_id |-> NoneVal,
     schedule_id |-> NoneVal, max_uses |-> 1, uses_per_user |-> 1, total_used |-> 0,
     valid_until |-> NoneVal, is_active |-> TRUE]

\* settings of the coupon in the concurrent specification
InitCoupons ==
    { [Dive20 EXCEPT !.max_uses = 1],
      [Dive20 EXCEPT !.max_uses = NoneVal] }

\* further settings, used by the sequential specification
InitCouponsSeq ==
    InitCoupons \cup
    { [Dive20 EXCEPT !.max_uses = 2, !.uses_per_user = 2],
      [Dive20 EXCEPT !.valid_until = 0],
      [Dive20 EXCEPT !.max_uses = NoneVal, !.scope = "schedule", !.schedule_id = 1,
                     !.discount_type = "fixed", !.discount_value = Pesos(500)],
      [Dive20 EXCEPT !.max_uses = NoneVal, !.scope = "store", !.store_id = 2,
                     !.min_price = 0] }

\* the dive operator was approved on day 0 and owns the two stores
InitUsers ==
    [u \in DiveOperators |->
        [id |-> u, verification_status |-> "approved", verified_at |-> 0,
         rejection_reason |-> NoneText]]

InitStores ==
    << [id |-> 1, owner_id |-> store_owner(1), name |-> <<"B">>],
       [id |-> 2, owner_id |-> store_owner(2), name |-> <<"B">>] >>

InitWith(settings) ==
    /\ schedules = InitSchedules
    /\ bookings = <<>>
    /\ \E c \in settings : coupons = [i \in CouponIds |-> c]
    /\ redemptions = <<>>
    /\ users = InitUsers
    /\ stores = InitStores
    /\ today = 1
    /\ pc = [p \in Workers |-> "idle"]
    /\ req = [p \in Workers |-> NoReq]
    /\ session = [p \in Workers |-> NoSession]
    /\ resp = [p \in Workers |-> NoResp]
    /\ rt = NoRt

Init == InitWith(InitCoupons)

InitSeq == InitWith(InitCouponsSeq)

AnyDone == \E p \in Workers : pc[p] = "done"

\* A finished request's response is delivered before any other step is taken
\* (Return changes nothing another request reads).
Ready == IF AnyDone THEN {} ELSE Workers

\* The model stops taking bookings that pass the schedule checks once cap rows
\* exist or are being made.
Admits(p, cap) == pc'[p] = "dup" => Len(bookings) + InFlightCreates < cap

\* Concurrent booking requests within one day.
Next ==
    \/ \E p \in Workers : Return(p)
    \/ \E p \in Ready : \E r \in CreateRequests \cup BadCreateRequests :
            CreateBooking_LoadSchedule(p, r) /\ Admits(p, MaxBookings)
    \/ \E p \in Ready : CreateBooking_DuplicateCheck(p)
    \/ \E p \in Ready : CreateBooking_LoadCoupon(p)
    \/ \E p \in Ready : CreateBooking_CountUserUses(p)
    \/ \E p \in Ready : CreateBooking_Flush(p)
    \/ \E p \in Ready : CreateBooking_Commit(p)
    \/ \E p \in Ready : \E r \in CancelRequests : CancelBooking_LoadBooking(p, r)
    \/ \E p \in Ready : CancelBooking_LoadSchedule(p)
    \/ \E p \in Ready : CancelBooking_Commit(p)

Spec == Init /\ [][Next]_vars

\* One request at a time, all operations, days passing between requests: a
\* worker steps only while no other request is in flight.
Turn == {p \in Workers : \A q \in Workers \ {p} : pc[q] = "idle"}

NextSeq ==
    \/ \E p \in Workers : Return(p)
    \/ \E p \in Turn : \E r \in CreateRequests \cup BadCreateRequests :
            CreateBooking_LoadSchedule(p, r) /\ Admits(p, MaxBookings)
    \/ \E p \in Turn : CreateBooking_DuplicateCheck(p)
    \/ \E p \in Turn : CreateBooking_LoadCoupon(p)
    \/ \E p \in Turn : CreateBooking_CountUserUses(p)
    \/ \E p \in Turn : CreateBooking_Flush(p)
    \/ \E p \in Turn : CreateBooking_Commit(p)
    \/ \E p \in Turn : \E r \in CancelRequests : CancelBooking_LoadBooking(p, r)
    \/ \E p \in Turn : CancelBooking_LoadSchedule(p)
    \/ \E p \in Turn : CancelBooking_Commit(p)
    \/ \E p \in Turn : \E r \in CancelScheduleRequests : CancelSchedule_Load(p, r)
    \/ \E p \in Turn : CancelSchedule_Commit(p)
    \/ (\A p \in Workers : pc[p] = "idle") /\ Tick

SpecSeq == InitSeq /\ [][NextSeq]_vars

\* Coupon arithmetic: the coupon is drawn from the settings that create_coupon and
\* update_coupon can store (update_coupon stores any discount_value; a max_discount
\* sent as the string "0" is stored as 0.0), and bookings are made with it, one
\* request at a time.
DiscountValues == {-10, 20, 100, 150, 500, 3000}

MaxDiscounts == {NoneVal, 0, Pesos(150), Pesos(5000)}

DiscountSettings ==
    { [Dive20 EXCEPT !.discount_type = ty,
                     !.discount_value = IF ty = "fixed" THEN Pesos(v) ELSE v,
                     !.max_discount = m, !.min_price = 0, !.max_uses = NoneVal] :
        ty \in {"percentage", "fixed"}, v \in DiscountValues, m \in MaxDiscounts }

InitDiscount == InitWith(DiscountSettings)

DiscountRequests == {r \in CreateRequests : r.coupon_code = "DIVE20"}

NextDiscount ==
    \/ \E p \in Workers : Return(p)
    \/ \E p \in Turn : \E r \in DiscountRequests :
            CreateBooking_LoadSchedule(p, r) /\ Admits(p, MaxBookings)
    \/ \E p \in Turn : CreateBooking_DuplicateCheck(p)
    \/ \E p \in Turn : CreateBooking_LoadCoupon(p)
    \/ \E p \in Turn : CreateBooking_CountUserUses(p)
    \/ \E p \in Turn : CreateBooking_Flush(p)
    \/ \E p \in Turn : CreateBooking_Commit(p)

SpecDiscount == InitDiscount /\ [][NextDiscount]_vars

\* The coupon race: concurrent one-slot bookings with a coupon that has no max_uses
\* and allows two uses per user, while the admin updates the coupon.
RaceCoupon == [Dive20 EXCEPT !.max_uses = NoneVal, !.uses_per_user = 2, !.min_price = 0]

InitRace == InitWith({RaceCoupon})

RaceRequests == {r \in CreateRequests : r.coupon_code = "DIVE20" /\ r.slots = 1}

NextRace ==
    \/ \E p \in Workers : Return(p)
    \/ \E p \in Ready : \E r \in RaceRequests :
            CreateBooking_LoadSchedule(p, r) /\ Admits(p, MaxRaceBookings)
    \/ \E p \in Ready : CreateBooking_DuplicateCheck(p)
    \/ \E p \in Ready : CreateBooking_LoadCoupon(p)
    \/ \E p \in Ready : CreateBooking_CountUserUses(p)
    \/ \E p \in Ready : CreateBooking_Flush(p)
    \/ \E p \in Ready : CreateBooking_Commit(p)
    \/ \E p \in Ready : \E r \in UpdateCouponRequests : UpdateCoupon_Load(p, r)
    \/ \E p \in Ready : UpdateCoupon_Commit(p)

SpecRace == InitRace /\ [][NextRace]_vars

\* Row locks.  The UPDATE of the schedule row that a create_booking sends at its flush
\* holds the row's write lock until the transaction commits or rolls back; the flush
\* of another create_booking on the schedule and the commit of a cancel_booking that
\* releases slots on it wait for the lock.

\* mutant: the row is locked from the moment it is read, by every reader
WriteLocked_FromRead(p, sid) ==
    \E q \in Workers \ {p} :
        /\ pc[q] \in {"dup", "coupon", "uses", "flush", "commit"}
        /\ req[q].schedule_id = sid

\* another request holds the write lock of the schedule row
WriteLocked(p, sid) ==
    \E q \in Workers \ {p} : pc[q] = "commit" /\ req[q].schedule_id = sid

\* the steps of worker p that send an UPDATE of a schedule row, once the lock is free
LockedStep(p) ==
    \/ CreateBooking_Flush(p) /\ ~WriteLocked(p, req[p].schedule_id)
    \/ CancelBooking_Commit(p) /\ ~WriteLocked(p, session[p].schedule.id)

\* the other steps of a request in progress
FreeStep(p) ==
    \/ Return(p)
    \/ CreateBooking_DuplicateCheck(p)
    \/ CreateBooking_LoadCoupon(p)
    \/ CreateBooking_CountUserUses(p)
    \/ CreateBooking_Commit(p)
    \/ CancelBooking_LoadSchedule(p)

\* Contention: requests of two users and the admin, all on schedule 1 and coupon
\* DIVE20, handled concurrently.
LiveCreates ==
    {r \in CreateRequests : r.schedule_id = 1 /\ r.slots = 1 /\ r.coupon_code = "DIVE20"}

LiveCancels == {r \in CancelRequests : r.booking_id <= MaxBookings}

NextLive ==
    \/ \E p \in Workers : Return(p)
    \/ \E p \in Workers : \E r \in LiveCreates :
            CreateBooking_LoadSchedule(p, r) /\ Admits(p, MaxBookings)
    \/ \E p \in Workers : CreateBooking_DuplicateCheck(p)
    \/ \E p \in Workers : CreateBooking_LoadCoupon(p)
    \/ \E p \in Workers : CreateBooking_CountUserUses(p)
    \/ \E p \in Workers : CreateBooking_Flush(p) /\ ~WriteLocked(p, req[p].schedule_id)
    \/ \E p \in Workers : CreateBooking_Commit(p)
    \/ \E p \in Workers : \E r \in LiveCancels : CancelBooking_LoadBooking(p, r)
    \/ \E p \in Workers : CancelBooking_LoadSchedule(p)
    \/ \E p \in Workers :
            CancelBooking_Commit(p) /\ ~WriteLocked(p, session[p].schedule.id)

\* Every worker thread keeps running (weak fairness of its steps), and the database
\* grants a row lock to a request that keeps asking for it (strong fairness of the
\* steps that wait for the lock).
SpecLive ==
    /\ InitRace
    /\ [][NextLive]_vars
    /\ \A p \in Workers : WF_vars(FreeStep(p)) /\ SF_vars(LockedStep(p))

\* Coupon administration: the coupons table starts empty; the admin creates or
\* generates a coupon and updates its discount_value, and bookings are made with it,
\* one request at a time.
CouponValues == {-10, 0, 20, 100, 150}

CreateCouponRequests ==
    { CouponRequest("create_coupon", AdminUser, ChosenCode, CouponData(ty, Json("number", v))) :
        ty \in {"percentage", "fixed", "bogus"}, v \in CouponValues }
    \cup
    { CouponRequest("create_coupon", AdminUser, ChosenCode,
                    CouponData("percentage", Json("null", 0))),
      CouponRequest("create_coupon", 1, ChosenCode,
                    CouponData("percentage", Json("number", 20))) }

GenerateRequests ==
    { CouponRequest("generate_bulk_coupons", AdminUser, GeneratedCode,
                    CouponData(ty, Json("number", v))) :
        ty \in {"percentage", "bogus"}, v \in {-10, 20, 150} }
    \cup
    { CouponRequest("generate_bulk_coupons", 1, GeneratedCode,
                    CouponData("percentage", Json("number", 20))) }

UpdateValueRequests ==
    { UpdateCouponRequest(AdminUser, 1, [key |-> "discount_value", val |-> Json("number", v)]) :
        v \in {-10, 20, 150} }

CouponBookingRequests ==
    { [op |-> "create_booking", user |-> 1, schedule_id |-> s, slots |-> 1,
       coupon_code |-> c, booking_id |-> 0, store_id |-> 0] :
        s \in ScheduleIds, c \in {ChosenCode, GeneratedCode} }

InitCoupon ==
    /\ schedules = InitSchedules
    /\ bookings = <<>>
    /\ coupons = [i \in CouponIds |-> NoCoupon]
    /\ redemptions = <<>>
    /\ users = InitUsers
    /\ stores = InitStores
    /\ today = 1
    /\ pc = [p \in Workers |-> "idle"]
    /\ req = [p \in Workers |-> NoReq]
    /\ session = [p \in Workers |-> NoSession]
    /\ resp = [p \in Workers |-> NoResp]
    /\ rt = NoRt

NextCoupon ==
    \/ \E p \in Workers : Return(p)
    \/ \E p \in Turn : \E r \in CreateCouponRequests : CreateCoupon(p, r)
    \/ \E p \in Turn : \E r \in GenerateRequests : GenerateBulkCoupons(p, r)
    \/ \E p \in Turn : \E r \in UpdateValueRequests : UpdateCoupon_Load(p, r)
    \/ \E p \in Turn : UpdateCoupon_Commit(p)
    \/ \E p \in Turn : \E r \in CouponBookingRequests :
            CreateBooking_LoadSchedule(p, r) /\ Admits(p, MaxBookings)
    \/ \E p \in Turn : CreateBooking_DuplicateCheck(p)
    \/ \E p \in Turn : CreateBooking_LoadCoupon(p)
    \/ \E p \in Turn : CreateBooking_CountUserUses(p)
    \/ \E p \in Turn : CreateBooking_Flush(p)
    \/ \E p \in Turn : CreateBooking_Commit(p)

SpecCoupon == InitCoupon /\ [][NextCoupon]_vars

\* Schedule cancellation under concurrency: bookings of one slot are made on the
\* schedules while the store's owner or the admin cancels schedule 1.
ScheduleRaceRequests == {r \in CreateRequests : r.slots = 1 /\ r.coupon_code = ""}

NextScheduleRace ==
    \/ \E p \in Workers : Return(p)
    \/ \E p \in Ready : \E r \in ScheduleRaceRequests :
            CreateBooking_LoadSchedule(p, r) /\ Admits(p, MaxBookings)
    \/ \E p \in Ready : CreateBooking_DuplicateCheck(p)
    \/ \E p \in Ready : CreateBooking_Flush(p)
    \/ \E p \in Ready : CreateBooking_Commit(p)
    \/ \E p \in Ready : \E r \in CancelScheduleRequests : CancelSchedule_Load(p, r)
    \/ \E p \in Ready : CancelSchedule_Commit(p)

SpecScheduleRace == InitWith({Dive20}) /\ [][NextScheduleRace]_vars

\* Prices: schedule 1 costs 33.33 pesos, the coupon takes off 15 or 20 percent, and
\* bookings are made with and without the coupon, one request at a time.
PriceSchedules ==
    [InitSchedules EXCEPT ![1].price = Pesos(33) + Centavos(33)]

PriceCoupons ==
    { [Dive20 EXCEPT !.discount_value = v, !.min_price = 0, !.max_discount = NoneVal,
                     !.max_uses = NoneVal] : v \in {15, 20} }

InitPrice ==
    /\ schedules = PriceSchedules
    /\ bookings = <<>>
    /\ \E c \in PriceCoupons : coupons = [i \in CouponIds |-> c]
    /\ redemptions = <<>>
    /\ users = InitUsers
    /\ stores = InitStores
    /\ today = 1
    /\ pc = [p \in Workers |-> "idle"]
    /\ req = [p \in Workers |-> NoReq]
    /\ session = [p \in Workers |-> NoSession]
    /\ resp = [p \in Workers |-> NoResp]
    /\ rt = NoRt

NextPrice ==
    \/ \E p \in Workers : Return(p)
    \/ \E p \in Turn : \E r \in CreateRequests :
            CreateBooking_LoadSchedule(p, r) /\ Admits(p, MaxBookings)
    \/ \E p \in Turn : CreateBooking_DuplicateCheck(p)
    \/ \E p \in Turn : CreateBooking_LoadCoupon(p)
    \/ \E p \in Turn : CreateBooking_CountUserUses(p)
    \/ \E p \in Turn : CreateBooking_Flush(p)
    \/ \E p \in Turn : CreateBooking_Commit(p)

SpecPrice == InitPrice /\ [][NextPrice]_vars

\* Listing: bookings are made and cancelled and the list is requested, one request at
\* a time.
InitList == InitWith({[Dive20 EXCEPT !.max_uses = NoneVal]})

NextList ==
    \/ \E p \in Workers : Return(p)
    \/ \E p \in Turn : \E r \in CreateRequests :
            CreateBooking_LoadSchedule(p, r) /\ Admits(p, MaxBookings)
    \/ \E p \in Turn : CreateBooking_DuplicateCheck(p)
    \/ \E p \in Turn : CreateBooking_LoadCoupon(p)
    \/ \E p \in Turn : CreateBooking_CountUserUses(p)
    \/ \E p \in Turn : CreateBooking_Flush(p)
    \/ \E p \in Turn : CreateBooking_Commit(p)
    \/ \E p \in Turn : \E r \in CancelRequests : CancelBooking_LoadBooking(p, r)
    \/ \E p \in Turn : CancelBooking_LoadSchedule(p)
    \/ \E p \in Turn : CancelBooking_Commit(p)
    \/ \E p \in Turn : \E r \in ListRequests : GetAllBookings(p, r)

SpecList == InitList /\ [][NextList]_vars

\* Dive operator verification, one request at a time: nobody has signed up as a
\* dive operator, so there is no store, schedule or coupon yet.
Reasons == {NoneText, <<>>, <<" ">>, <<"d">>, <<" ", "d", " ">>}

SignupRequests ==
    {OperatorRequest("signup", u, u, NoneText, f, NoneVal) : u \in DiveOperators, f \in BOOLEAN}

AdminRequests ==
    {OperatorRequest(op, u, target, reason, FALSE, NoneVal) :
        op \in {"approve_dive_operator", "reject_dive_operator", "reset_dive_operator"},
        u \in {1, AdminUser}, target \in {1, OperatorUser}, reason \in Reasons}

CreateStoreRequests ==
    {OperatorRequest("create_store", u, 0, name, FALSE, lat) :
        u \in {1, AdminUser, OperatorUser}, name \in {NoneText, <<" ">>, <<"B">>},
        lat \in {NoneVal, 11, 95}}

InitOperator ==
    /\ schedules = [s \in ScheduleIds |-> NoSchedule]
    /\ bookings = <<>>
    /\ coupons = [i \in CouponIds |-> NoCoupon]
    /\ redemptions = <<>>
    /\ users = [u \in DiveOperators |-> NoUser]
    /\ stores = <<>>
    /\ today = 1
    /\ pc = [p \in Workers |-> "idle"]
    /\ req = [p \in Workers |-> NoReq]
    /\ session = [p \in Workers |-> NoSession]
    /\ resp = [p \in Workers |-> NoResp]
    /\ rt = NoRt

NextOperator ==
    \/ \E p \in Workers : Return(p)
    \/ \E p \in Turn : \E r \in SignupRequests : SignupDiveOperator(p, r)
    \/ \E p \in Turn : \E r \in AdminRequests : Operator_Load(p, r)
    \/ \E p \in Turn : ApproveDiveOperator_Commit(p)
    \/ \E p \in Turn : RejectDiveOperator_Commit(p)
    \/ \E p \in Turn : ResetDiveOperator_Commit(p)
    \/ \E p \in Turn : \E r \in CreateStoreRequests :
            Len(stores) < MaxStores /\ CreateStore_Load(p, r)
    \/ \E p \in Turn : CreateStore_Commit(p)
    \/ (\A p \in Workers : pc[p] = "idle") /\ Tick

SpecOperator == InitOperator /\ [][NextOperator]_vars

-----------------------------------------------------------------------------
(* Properties *)

RECURSIVE ActiveSlotsUpTo(_, _)
ActiveSlotsUpTo(s, n) ==
    IF n = 0 THEN 0
    ELSE ActiveSlotsUpTo(s, n - 1)
         + (IF bookings[n].schedule_id = s /\ ~bookings[n].is_cancelled
            THEN bookings[n].slots ELSE 0)

\* the slots of the schedule's non-cancelled bookings
ActiveSlots(s) == ActiveSlotsUpTo(s, Len(bookings))

RedemptionsOf(cid) == {i \in 1..Len(redemptions) : redemptions[i].coupon_id = cid}

ActiveBookingsOf(u, s) ==
    {i \in 1..Len(bookings) :
        bookings[i].user_id = u /\ bookings[i].schedule_id = s /\ ~bookings[i].is_cancelled}

\* a request now in flight read the schedule row before another request changed it
StaleSchedule(p) ==
    /\ InFlight(p)
    /\ session[p].schedule # NoSchedule
    /\ session[p].schedule.booked_slots # schedules[session[p].schedule.id].booked_slots

\* C1: in every reachable state, whatever the interleaving of create_booking and
\* cancel_booking requests, every schedule has 0 <= booked_slots <= max_slots.
C1_SlotsWithinCapacity ==
    \A s \in ScheduleIds :
        /\ 0 <= schedules[s].booked_slots
        /\ schedules[s].booked_slots <= schedules[s].max_slots

\* C1 witness: a schedule is full, a booking has been cancelled and a request in
\* flight holds a stale copy of a schedule row.
C1_Witness ==
    /\ \E s \in ScheduleIds : schedules[s].booked_slots = schedules[s].max_slots
    /\ \E i \in 1..Len(bookings) : bookings[i].is_cancelled
    /\ \E p \in Workers : StaleSchedule(p)

\* C2: in every reachable state the slots of a schedule's non-cancelled bookings sum
\* to at most max_slots (two concurrent create_booking requests whose slots together
\* exceed the available slots never both succeed).
\* (Stated for the states in which no user holds two active bookings on the
\* schedule, so that the requests that succeeded came from different users.)
C2_NoOverbooking ==
    \A s \in ScheduleIds :
        (\A u \in Users : Cardinality(ActiveBookingsOf(u, s)) <= 1) =>
            ActiveSlots(s) <= schedules[s].max_slots

\* C3: for a coupon with max_uses set, the number of CouponRedemption records never
\* exceeds max_uses.  (Stated for the states in which every user is within
\* uses_per_user, so that the redemptions came from different users.)
C3_RedemptionsWithinMaxUses ==
    \A c \in CouponIds :
        /\ coupons[c].max_uses # NoneVal
        /\ \A u \in Users : UserUses(c, u) <= coupons[c].uses_per_user
        => Cardinality(RedemptionsOf(c)) <= coupons[c].max_uses

\* C4: in every reachable state there is at most one non-cancelled booking per
\* (user, schedule) pair.  (Stated for the schedules that are not overbooked.)
C4_OneActiveBookingPerUserSchedule ==
    \A u \in Users, s \in ScheduleIds :
        ActiveSlots(s) <= schedules[s].max_slots =>
            Cardinality(ActiveBookingsOf(u, s)) <= 1

\* C5: for every user and coupon, the number of CouponRedemption records of the
\* coupon by the user never exceeds the coupon's uses_per_user.  (Stated for the
\* coupons whose redemptions are within max_uses and the users who hold at most
\* one active booking per schedule: the user's requests target different schedules.)
C5_RedemptionsWithinUsesPerUser ==
    \A u \in Users, c \in CouponIds :
        /\ coupons[c].max_uses = NoneVal
            \/ Cardinality(RedemptionsOf(c)) <= coupons[c].max_uses
        /\ \A s \in ScheduleIds : Cardinality(ActiveBookingsOf(u, s)) <= 1
        => UserUses(c, u) <= coupons[c].uses_per_user

\* the responses of each failure kind
CapacityErrors ==
    {"This schedule has been cancelled", "This schedule is no longer available",
     "Cannot book a past schedule", "This schedule is fully booked", "Only N slot(s) left"}

InvalidCouponErrors ==
    {"This coupon is invalid, expired, or exhausted",
     "This coupon is only valid for a specific store",
     "This coupon is only valid for a specific schedule",
     "Minimum booking required",
     "You have already used this coupon the maximum number of times"}

\* worker p receives a request in this step
Receives(p, op) == pc[p] = "idle" /\ pc'[p] # "idle" /\ req'[p].op = op

\* worker p answers its request in this step
Answers(p, op) == pc[p] # "done" /\ pc'[p] = "done" /\ req'[p].op = op

\* C6: a create_booking request (slots >= 1, any user, any coupon code) on a schedule
\* whose available slots are 0 fails with a CapacityError, HTTP 400 carrying
\* available_slots: 0, and leaves schedules, bookings, redemptions and coupons unchanged.
C6_FullScheduleRejected ==
    [][\A p \in Workers :
        /\ Receives(p, "create_booking")
        /\ req'[p].slots >= 1
        /\ req'[p].schedule_id \in ScheduleIds
        /\ available_slots(schedules[req'[p].schedule_id]) = 0
        => /\ pc'[p] = "done"
           /\ resp'[p].status = 400
           /\ resp'[p].error \in CapacityErrors
           /\ resp'[p].available_slots = 0
           /\ UNCHANGED db]_vars

\* C7: after a create_booking that succeeded and a cancel_booking of that booking,
\* with no other write in between, the schedule's booked_slots equals its value
\* before the create.
C7_CreateCancelRoundTrip ==
    rt.stage = "cancelled" => schedules[rt.schedule_id].booked_slots = rt.pre

\* C7 witness: the round trip has happened on a schedule that had slots booked.
C7_Witness == rt.stage = "cancelled" /\ rt.pre > 0

\* C8 as claimed: cancel_booking on a booking already cancelled fails with
\* AlreadyCancelled (HTTP 400) and changes nothing, whoever the caller is.
C8_AlreadyCancelledAnyCaller ==
    [][\A p \in Workers :
        /\ Receives(p, "cancel_booking")
        /\ req'[p].booking_id \in 1..Len(bookings)
        /\ bookings[req'[p].booking_id].is_cancelled
        => /\ pc'[p] = "done"
           /\ resp'[p] = Response(400, "Booking is already cancelled")
           /\ UNCHANGED db]_vars

\* C8 amended: cancel_booking by the booking's owner or an admin on a booking already
\* cancelled fails with AlreadyCancelled (HTTP 400); any other caller gets Forbidden
\* (HTTP 403); either way nothing changes: booked_slots is not decremented again and
\* the booking stays cancelled.
C8_AlreadyCancelled ==
    [][\A p \in Workers :
        /\ Receives(p, "cancel_booking")
        /\ req'[p].booking_id \in 1..Len(bookings)
        /\ bookings[req'[p].booking_id].is_cancelled
        => /\ pc'[p] = "done"
           /\ resp'[p] =
                IF \/ role(req'[p].user) = "admin"
                   \/ bookings[req'[p].booking_id].user_id = req'[p].user
                THEN Response(400, "Booking is already cancelled")
                ELSE Response(403, "Access denied")
           /\ UNCHANGED db]_vars

\* C8 witness: the owner or an admin was answered AlreadyCancelled.
C8_Witness ==
    \E p \in Workers :
        /\ pc[p] = "done"
        /\ req[p].op = "cancel_booking"
        /\ resp[p] = Response(400, "Booking is already cancelled")
        /\ schedules[bookings[req[p].booking_id].schedule_id].booked_slots > 0

\* user u redeemed the coupon with this code, limited to one use per user, on a booking
\* that has since been cancelled
RedeemedAndCancelled(u, code) ==
    LET c == CouponByCode(code)
    IN  /\ c # NoCoupon
        /\ c.uses_per_user = 1
        /\ \E i \in 1..Len(redemptions) :
              /\ redemptions[i].coupon_id = c.id
              /\ redemptions[i].user_id = u
              /\ bookings[redemptions[i].booking_id].is_cancelled

\* C9: no step of a cancel_booking request changes a coupon's total_used or the
\* CouponRedemption records; and a user who booked with a uses_per_user = 1 coupon and
\* cancelled is rejected with InvalidCoupon when the coupon validation of a new
\* create_booking with the same code is reached: the request never gets to create.
C9_CancelKeepsRedemptions ==
    [][\A p \in Workers :
        /\ pc'[p] # pc[p] /\ req'[p].op = "cancel_booking"
           => UNCHANGED <<coupons, redemptions>>
        /\ /\ pc[p] \in {"coupon", "uses"}
           /\ pc'[p] # pc[p]
           /\ RedeemedAndCancelled(req[p].user, req[p].coupon_code)
           => /\ pc'[p] # "flush"
              /\ pc'[p] = "done" =>
                    resp'[p].status = 400 /\ resp'[p].error \in InvalidCouponErrors]_vars

\* C9 witness: a user whose redemption belongs to a cancelled booking was told that
\* the coupon was already used the maximum number of times.
C9_Witness ==
    \E p \in Workers :
        /\ pc[p] = "done"
        /\ req[p].op = "create_booking"
        /\ RedeemedAndCancelled(req[p].user, req[p].coupon_code)
        /\ resp[p].error = "You have already used this coupon the maximum number of times"

\* C10: every step of a create_booking request other than the commit that answers 201
\* leaves schedules, bookings, redemptions and coupons unchanged, and a request that
\* fails with a validation error, NotFound, CapacityError, Conflict or InvalidCoupon
\* is answered before the handler reaches its first assignment.
C10_FailedCreateChangesNothing ==
    [][\A p \in Workers :
        /\ pc'[p] # pc[p] /\ req'[p].op = "create_booking" /\ pc[p] # "commit"
           => UNCHANGED db
        /\ Answers(p, "create_booking") /\ resp'[p].status \in {400, 404, 409}
           => UNCHANGED db /\ pc[p] \notin {"flush", "commit"}]_vars

\* C10 witness: a request has failed with Conflict or InvalidCoupon while bookings
\* existed.
C10_Witness ==
    /\ Len(bookings) > 0
    /\ \E p \in Workers :
        /\ pc[p] = "done"
        /\ req[p].op = "create_booking"
        /\ resp[p].status \in {409, 400}
        /\ resp[p].error \in InvalidCouponErrors
                \cup {"You have already booked this schedule"}

\* C11: the writes of one create_booking reach the tables all together or not at all:
\* a step of a create_booking request either leaves schedules, bookings, coupons and
\* redemptions unchanged, or it is the commit, answered 201, that writes the reserved
\* booked_slots, inserts the booking and, when a coupon is used, inserts the redemption
\* and writes the incremented total_used; a request whose flush or commit fails, after
\* booked_slots was incremented in its session, is answered 500 and persists nothing.
C11_AtomicCommit ==
    [][\A p \in Workers :
        /\ pc'[p] # pc[p] /\ req'[p].op = "create_booking"
           => \/ UNCHANGED db
              \/ /\ pc[p] = "commit"
                 /\ resp'[p].status = 201
                 /\ Len(bookings') = Len(bookings) + 1
                 /\ bookings'[Len(bookings')].user_id = req[p].user
                 /\ bookings'[Len(bookings')].schedule_id = req[p].schedule_id
                 /\ bookings'[Len(bookings')].slots = req[p].slots
                 /\ schedules'[req[p].schedule_id].booked_slots =
                        session[p].schedule.booked_slots + req[p].slots
                 /\ IF req[p].coupon_code # ""
                    THEN /\ Len(redemptions') = Len(redemptions) + 1
                         /\ redemptions'[Len(redemptions')].booking_id = Len(bookings')
                         /\ redemptions'[Len(redemptions')].coupon_id = session[p].coupon.id
                         /\ coupons'[session[p].coupon.id].total_used =
                                session[p].coupon.total_used + 1
                    ELSE UNCHANGED <<coupons, redemptions>>
        /\ Answers(p, "create_booking") /\ resp'[p].status = 500
           => pc[p] \in {"flush", "commit"} /\ UNCHANGED db]_vars

\* C11 witness: a create_booking with a coupon has failed at the flush or the commit
\* while another request had flushed its reservation without committing it, and the
\* tables show neither.
C11_Witness ==
    \E p, q \in Workers :
        /\ pc[p] = "done"
        /\ req[p].op = "create_booking"
        /\ req[p].coupon_code # ""
        /\ resp[p] = ServerError
        /\ pc[q] = "commit"
        /\ bookings = <<>>
        /\ redemptions = <<>>
        /\ \A s \in ScheduleIds : schedules[s].booked_slots = 0

\* C12: compute_discount never returns more than original_price, for every
\* discount_type, discount_value and max_discount (set or unset): for the coupon in the
\* table and every price a booking can have, and in every booking made, the discount is
\* at most the original price and the final price is not negative.
C12_DiscountAtMostPrice ==
    /\ \A c \in CouponIds, s \in ScheduleIds, n \in 1..MaxReqSlots :
            compute_discount(coupons[c], OriginalPrice(schedules[s], n))
                <= OriginalPrice(schedules[s], n)
    /\ \A i \in 1..Len(bookings) :
            /\ bookings[i].discount_applied <= bookings[i].original_price
            /\ bookings[i].final_price >= 0
            /\ bookings[i].final_price =
                    bookings[i].original_price - bookings[i].discount_applied

\* C12 witness: a booking was made with a coupon whose unclamped discount exceeds the
\* price, and its final price is 0.
C12_Witness ==
    \E i \in 1..Len(redemptions) :
        LET b == bookings[redemptions[i].booking_id]
        IN  /\ compute_discount_NoClamp(coupons[redemptions[i].coupon_id], b.original_price)
                    > b.original_price
            /\ b.discount_applied = b.original_price
            /\ b.final_price = 0

\* the discount as claimed: the cap applies whenever max_discount is set
ClaimedDiscount(c, price) ==
    IF c.discount_type = "percentage"
    THEN LET d == Percent(price, c.discount_value)
         IN  Min(IF c.max_discount # NoneVal THEN Min(d, c.max_discount) ELSE d, price)
    ELSE Min(c.discount_value, price)

\* C13: a booking made with a coupon records original_price = price * slots,
\* discount_applied = min(price * slots * discount_value / 100, max_discount if set,
\* price * slots) for a percentage coupon and min(discount_value, price * slots) for a
\* fixed coupon, and final_price = original_price - discount_applied.
C13_DiscountRecorded ==
    \A i \in 1..Len(redemptions) :
        LET b == bookings[redemptions[i].booking_id]
            c == coupons[redemptions[i].coupon_id]
        IN  /\ b.original_price = schedules[b.schedule_id].price * b.slots
            /\ b.discount_applied = ClaimedDiscount(c, b.original_price)
            /\ b.final_price = b.original_price - b.discount_applied

\* the failure kind of a create_booking response
KindOf(r) ==
    CASE r.status = 201 -> "Created"
      [] r.status = 404 /\ r.error = "Schedule not found" -> "NotFound"
      [] r.status = 400 /\ r.error \in CapacityErrors -> "CapacityError"
      [] r.status = 409 -> "Conflict"
      [] r.status = 404 /\ r.error = "Coupon not found" -> "InvalidCoupon"
      [] r.status = 400 /\ r.error \in InvalidCouponErrors -> "InvalidCoupon"
      [] OTHER -> "Other"

\* some step of the coupon validation fails for request r on schedule s
CouponFails(r, s) ==
    LET c == CouponByCode(r.coupon_code)
    IN  \/ c = NoCoupon
        \/ ~is_valid(c, today)
        \/ c.scope = "store" /\ s.store_id # c.store_id
        \/ c.scope = "schedule" /\ s.id # c.schedule_id
        \/ c.min_price # NoneVal /\ s.price * r.slots < c.min_price
        \/ UserUses(c.id, r.user) >= c.uses_per_user

\* the first precondition that fails for request r, in the order of the claim
FirstFailure(r) ==
    IF r.schedule_id \notin ScheduleIds THEN "NotFound"
    ELSE LET s == schedules[r.schedule_id]
         IN  IF \/ s.is_cancelled
                \/ ~s.is_active
                \/ s.date < today
                \/ r.slots > s.max_slots - s.booked_slots
             THEN "CapacityError"
             ELSE IF ExistingBooking(r.user, r.schedule_id) THEN "Conflict"
             ELSE IF r.coupon_code # "" /\ CouponFails(r, s) THEN "InvalidCoupon"
             ELSE "Created"

\* C14: with one request at a time, a create_booking request with valid input whose
\* transaction does not fail is answered with the first failing precondition in the
\* order NotFound, CapacityError, Conflict, InvalidCoupon, and with 201 when none fails.
C14_FirstFailureReported ==
    [][\A p \in Workers :
        /\ Answers(p, "create_booking")
        /\ ValidateInput(req'[p]) = NoResp
        /\ resp'[p].status # 500
        => KindOf(resp'[p]) = FirstFailure(req'[p])]_vars

\* C14 witness: a user who holds an active booking on a schedule that is now full, and
\* who names a coupon that cannot be used, was answered CapacityError.
C14_Witness ==
    \E p \in Workers :
        /\ pc[p] = "done"
        /\ req[p].op = "create_booking"
        /\ req[p].schedule_id \in ScheduleIds
        /\ ExistingBooking(req[p].user, req[p].schedule_id)
        /\ schedules[req[p].schedule_id].booked_slots = schedules[req[p].schedule_id].max_slots
        /\ req[p].coupon_code # ""
        /\ CouponFails(req[p], schedules[req[p].schedule_id])
        /\ resp[p].error = "This schedule is fully booked"

\* the step of the coupon validation a response reports; 0 for a booking made
StepOf(r) ==
    CASE r.status = 201 -> 0
      [] r.error = "Coupon not found" -> 1
      [] r.error = "This coupon is invalid, expired, or exhausted" -> 2
      [] r.error = "This coupon is only valid for a specific store" -> 3
      [] r.error = "This coupon is only valid for a specific schedule" -> 3
      [] r.error = "Minimum booking required" -> 4
      [] r.error = "You have already used this coupon the maximum number of times" -> 5
      [] OTHER -> 6

\* the first step of the coupon validation that fails, as the claim lists them;
\* 0 when all five pass
FirstCouponStep(r, s) ==
    LET c == CouponByCode(r.coupon_code)
    IN  IF c = NoCoupon THEN 1
        ELSE IF ~(c.is_active /\ ~is_expired(c, today) /\ ~is_exhausted(c)) THEN 2
        ELSE IF c.scope = "store" /\ s.store_id # c.store_id THEN 3
        ELSE IF c.scope = "schedule" /\ s.id # c.schedule_id THEN 3
        ELSE IF s.price * r.slots < (IF c.min_price = NoneVal THEN 0 ELSE c.min_price) THEN 4
        ELSE IF ~(UserUses(c.id, r.user) < c.uses_per_user) THEN 5
        ELSE 0

\* C15: with one request at a time, a create_booking request with a coupon code that
\* passes the schedule, capacity and duplicate preconditions is answered with the first
\* failing step of the coupon validation, in the order (1) coupon exists, (2) is_valid,
\* (3) scope, (4) minimum price, (5) per-user limit; the booking is made, with its
\* redemption, exactly when all five pass.
C15_CouponValidationOrder ==
    [][\A p \in Workers :
        /\ Answers(p, "create_booking")
        /\ ValidateInput(req'[p]) = NoResp
        /\ req'[p].coupon_code # ""
        /\ FirstFailure(req'[p]) \in {"InvalidCoupon", "Created"}
        /\ resp'[p].status # 500
        => /\ StepOf(resp'[p]) = FirstCouponStep(req'[p], schedules[req'[p].schedule_id])
           /\ resp'[p].status = 201 =>
                /\ Len(redemptions') = Len(redemptions) + 1
                /\ redemptions'[Len(redemptions')].booking_id = Len(bookings')
                /\ bookings'[Len(bookings')].discount_applied =
                        redemptions'[Len(redemptions')].discount_applied]_vars

\* C15 witness: a request that fails two steps of the validation (the coupon is
\* exhausted and the user has reached the per-user limit) was answered with the
\* earlier one.
C15_Witness ==
    \E p \in Workers :
        /\ pc[p] = "done"
        /\ req[p].op = "create_booking"
        /\ req[p].coupon_code # ""
        /\ LET c == CouponByCode(req[p].coupon_code)
           IN  /\ c # NoCoupon
               /\ is_exhausted(c)
               /\ UserUses(c.id, req[p].user) >= c.uses_per_user
        /\ resp[p].error = "This coupon is invalid, expired, or exhausted"

\* the cause for which a coupon is refused, as the claim names them
InvalidCause(c, s, price, uses, now) ==
    IF ~c.is_active THEN "inactive"
    ELSE IF is_expired(c, now) THEN "expired"
    ELSE IF is_exhausted(c) THEN "exhausted"
    ELSE IF c.scope = "store" /\ s.store_id # c.store_id THEN "scope mismatch"
    ELSE IF c.scope = "schedule" /\ s.id # c.schedule_id THEN "scope mismatch"
    ELSE IF Truthy(c.min_price) /\ price < c.min_price THEN "below minimum price"
    ELSE IF uses >= c.uses_per_user THEN "per-user limit reached"
    ELSE "none"

\* the reason create_booking gives for refusing coupon row c; "" when it accepts it
ReasonGiven(c, s, price, uses, now) ==
    IF CouponCheck(c, s, price, now) # NoResp THEN CouponCheck(c, s, price, now).error
    ELSE IF ~UsesLeft(uses, c)
         THEN "You have already used this coupon the maximum number of times"
    ELSE ""

\* coupon rows the table can hold
CouponRows == {[c EXCEPT !.total_used = n] : c \in InitCouponsSeq, n \in 0..MaxBookings}

\* C16: each InvalidCoupon cause has a reason of its own: when a create_booking is
\* refused with an InvalidCoupon reason, the same request on a coupon row refused for
\* a different cause is given a different reason.
C16_DistinctReasons ==
    \A p \in Workers :
        /\ pc[p] = "done"
        /\ req[p].op = "create_booking"
        /\ resp[p].status = 400
        /\ resp[p].error \in InvalidCouponErrors
        => LET c == CouponByCode(req[p].coupon_code)
               s == schedules[req[p].schedule_id]
               price == OriginalPrice(s, req[p].slots)
               uses == UserUses(c.id, req[p].user)
           IN  \A c2 \in CouponRows :
                   InvalidCause(c2, s, price, uses, today)
                        \notin {"none", InvalidCause(c, s, price, uses, today)}
                   => ReasonGiven(c2, s, price, uses, today) # resp[p].error

\* C17: every CapacityError of create_booking (schedule cancelled, inactive, dated in
\* the past, no slots left, fewer slots left than requested) carries the schedule's
\* current available slots, max_slots - booked_slots.
C17_CapacityErrorCarriesAvailableSlots ==
    [][\A p \in Workers :
        /\ Answers(p, "create_booking")
        /\ resp'[p].status = 400
        /\ resp'[p].error \in CapacityErrors
        => resp'[p].available_slots =
                schedules[req'[p].schedule_id].max_slots
                    - schedules[req'[p].schedule_id].booked_slots]_vars

\* C18: cancel_booking checks NotFound, then Forbidden, then AlreadyCancelled: a
\* request for a booking that does not exist is answered 404; a caller who is neither
\* the booking's owner nor an admin is answered 403, whether or not the booking is
\* already cancelled, and the request changes nothing; and a booking becomes cancelled
\* only by the commit of a cancel_booking of its owner or of an admin.
C18_ForbiddenBeforeAlreadyCancelled ==
    [][/\ \A p \in Workers :
            /\ Receives(p, "cancel_booking") /\ req'[p].booking_id \notin 1..Len(bookings)
               => resp'[p] = Response(404, "Booking not found") /\ UNCHANGED db
            /\ /\ Receives(p, "cancel_booking")
               /\ req'[p].booking_id \in 1..Len(bookings)
               /\ role(req'[p].user) # "admin"
               /\ bookings[req'[p].booking_id].user_id # req'[p].user
               => /\ pc'[p] = "done"
                  /\ resp'[p] = Response(403, "Access denied")
                  /\ UNCHANGED db
       /\ \A i \in 1..Len(bookings) :
            ~bookings[i].is_cancelled /\ bookings'[i].is_cancelled
            => \E q \in Workers :
                    /\ pc[q] = "cx_commit" /\ pc'[q] = "done"
                    /\ req[q].op = "cancel_booking"
                    /\ req[q].booking_id = i
                    /\ \/ role(req[q].user) = "admin"
                       \/ req[q].user = bookings[i].user_id]_vars

\* C18 witness: a caller who is neither owner nor admin was answered Forbidden for a
\* booking that is already cancelled, while an admin's cancellation of another user's
\* booking is about to commit.
C18_Witness ==
    \E p, q \in Workers :
        /\ pc[p] = "done"
        /\ req[p].op = "cancel_booking"
        /\ resp[p] = Response(403, "Access denied")
        /\ bookings[req[p].booking_id].is_cancelled
        /\ pc[q] = "cx_commit"
        /\ role(req[q].user) = "admin"

\* C19: a booking goes from active to cancelled and nowhere else: in every step no
\* booking is deleted, and each booking is left as it is or, if it was active, has its
\* is_cancelled set and nothing else changed (user, schedule, slots, original_price,
\* discount_applied and final_price stay as created; is_cancelled never reverts).
C19_ActiveThenCancelled ==
    [][/\ Len(bookings') >= Len(bookings)
       /\ \A i \in 1..Len(bookings) :
            \/ bookings'[i] = bookings[i]
            \/ /\ ~bookings[i].is_cancelled
               /\ bookings'[i] = [bookings[i] EXCEPT !.is_cancelled = TRUE]]_vars

\* C19 witness: a booking made with a coupon was cancelled and its user has booked the
\* same schedule again; the cancelled booking still has its slots and prices.
C19_Witness ==
    \E i, j \in 1..Len(bookings) :
        /\ i < j
        /\ bookings[i].is_cancelled
        /\ ~bookings[j].is_cancelled
        /\ bookings[i].user_id = bookings[j].user_id
        /\ bookings[i].schedule_id = bookings[j].schedule_id
        /\ bookings[i].slots = 2
        /\ bookings[i].discount_applied > 0
        /\ bookings[i].final_price = bookings[i].original_price - bookings[i].discount_applied

\* C20: a coupon's total_used changes only by +1 and only in the step in which a
\* create_booking that names the coupon commits and is answered 201; every other step
\* (failed create_booking, create_booking without or with another code,
\* cancel_booking, update_coupon) leaves it unchanged.
C20_TotalUsedOnlyIncrements ==
    [][\A c \in CouponIds :
        coupons'[c].total_used # coupons[c].total_used
        => /\ coupons'[c].total_used = coupons[c].total_used + 1
           /\ \E p \in Workers :
                /\ pc[p] = "commit" /\ pc'[p] = "done"
                /\ resp'[p].status = 201
                /\ req[p].coupon_code = coupons[c].code]_vars

\* the redemptions that carry the booking's id
RedemptionsOfBooking(rs, b) == {j \in 1..Len(rs) : rs[j].booking_id = b}

\* worker p's create_booking commits in this step and is answered 201
Creates(p) ==
    /\ pc[p] = "commit" /\ pc'[p] = "done"
    /\ req[p].op = "create_booking"
    /\ resp'[p].status = 201

\* C21: the CouponRedemption records correspond one-to-one with the bookings created
\* with an accepted coupon code.  In every step: the redemptions already stored stay
\* as they are (none is modified or deleted); a create_booking that commits with a
\* coupon code appends exactly one redemption carrying the new booking's id, its user
\* and its prices, and one that commits without a code appends none; no other step
\* adds a redemption; and afterwards no booking has two redemptions and every
\* redemption carries the user and the prices of its booking.
C21_RedemptionsMatchCouponBookings ==
    [][/\ Len(redemptions') >= Len(redemptions)
       /\ \A j \in 1..Len(redemptions) : redemptions'[j] = redemptions[j]
       /\ \A p \in Workers :
            Creates(p) =>
                LET b == bookings'[Len(bookings')]
                IN  /\ Len(bookings') = Len(bookings) + 1
                    /\ b.id = Len(bookings')
                    /\ IF req[p].coupon_code # ""
                       THEN /\ Len(redemptions') = Len(redemptions) + 1
                            /\ redemptions'[Len(redemptions')] =
                                 [coupon_id |-> session[p].coupon.id,
                                  user_id |-> b.user_id, booking_id |-> b.id,
                                  original_price |-> b.original_price,
                                  discount_applied |-> b.discount_applied,
                                  final_price |-> b.final_price]
                            /\ b.user_id = req[p].user
                       ELSE redemptions' = redemptions
       /\ redemptions' # redemptions =>
            \E p \in Workers : Creates(p) /\ req[p].coupon_code # ""
       /\ \A i \in 1..Len(bookings') :
            Cardinality(RedemptionsOfBooking(redemptions', i)) <= 1
       /\ \A j \in 1..Len(redemptions') :
            /\ redemptions'[j].booking_id \in 1..Len(bookings')
            /\ LET b == bookings'[redemptions'[j].booking_id]
               IN  /\ redemptions'[j].user_id = b.user_id
                   /\ redemptions'[j].original_price = b.original_price
                   /\ redemptions'[j].discount_applied = b.discount_applied
                   /\ redemptions'[j].final_price = b.final_price]_vars

\* C21 witness: a booking made with a coupon has its one redemption and has been
\* cancelled since, and a booking made without a coupon has none.
C21_Witness ==
    \E i, k \in 1..Len(bookings) :
        /\ Cardinality(RedemptionsOfBooking(redemptions, i)) = 1
        /\ bookings[i].is_cancelled
        /\ bookings[i].discount_applied > 0
        /\ RedemptionsOfBooking(redemptions, k) = {}
        /\ bookings[k].discount_applied = 0

\* the prices every booking stores, but for the relation of final_price to the discount
PricesAsComputed ==
    \A i \in 1..Len(bookings) :
        LET b == bookings[i]
        IN  /\ b.original_price = schedules[b.schedule_id].price * b.slots
            /\ RedemptionsOfBooking(redemptions, i) = {} =>
                    b.discount_applied = 0 /\ b.final_price = b.original_price

\* C22 as stated: every booking ever created has original_price = schedule.price *
\* slots, final_price = original_price - discount_applied, and discount_applied = 0
\* with final_price = original_price when no coupon code was supplied.
C22_FinalPriceExact ==
    /\ PricesAsComputed
    /\ \A i \in 1..Len(bookings) :
            bookings[i].final_price =
                bookings[i].original_price - bookings[i].discount_applied

\* C22, corrected: every booking ever created has original_price = schedule.price *
\* slots; final_price is original_price - discount_applied rounded to the centavo (a
\* whole number of centavos at most half a centavo away from it, and equal to it when
\* the discount is a whole number of centavos), while discount_applied is stored
\* unrounded; and discount_applied = 0 with final_price = original_price when no
\* coupon code was supplied.
C22_FinalPriceRounded ==
    /\ PricesAsComputed
    /\ \A i \in 1..Len(bookings) :
            LET b == bookings[i]
                exact == b.original_price - b.discount_applied
            IN  /\ b.final_price % 100 = 0
                /\ 2 * (b.final_price - exact) <= 100
                /\ 2 * (exact - b.final_price) <= 100
                /\ b.discount_applied % 100 = 0 => b.final_price = exact

\* C22 witness: a two-slot booking of the 33.33 schedule at 20 percent off stores the
\* discount 13.332 and the final price 53.33, and a booking made without a coupon
\* stores its price undiscounted.
C22_Witness ==
    \E i, k \in 1..Len(bookings) :
        /\ bookings[i].original_price = Pesos(66) + Centavos(66)
        /\ bookings[i].discount_applied = Pesos(13) + Centavos(33) + 20
        /\ bookings[i].final_price = Pesos(53) + Centavos(33)
        /\ RedemptionsOfBooking(redemptions, k) = {}
        /\ bookings[k].final_price = bookings[k].original_price
        /\ bookings[k].original_price = Pesos(400)

\* the rows of a sequence
RowsOf(rows) == {rows[i] : i \in 1..Len(rows)}

\* C23: get_all_bookings answers 200 with rows of the bookings table: for a non-admin
\* caller exactly the rows whose user_id is the caller's id, for an admin all rows,
\* restricted to the non-cancelled rows for status=active and to the cancelled rows
\* for status=cancelled, each row once; and the step changes no booking, schedule,
\* coupon or redemption.
C23_ListShowsOwnBookings ==
    [][\A p \in Workers :
        Answers(p, "get_all_bookings") =>
            LET u == req'[p].user
                status == req'[p].status
                listed == resp'[p].bookings
                visible == {i \in 1..Len(bookings) :
                              /\ u = AdminUser \/ bookings[i].user_id = u
                              /\ status = "active" => ~bookings[i].is_cancelled
                              /\ status = "cancelled" => bookings[i].is_cancelled}
            IN  /\ resp'[p].status = 200
                /\ RowsOf(listed) = {bookings[i] : i \in visible}
                /\ Len(listed) = Cardinality(visible)
                /\ u # AdminUser => \A k \in 1..Len(listed) : listed[k].user_id = u
                /\ u = AdminUser /\ status \notin {"active", "cancelled"}
                        => RowsOf(listed) = RowsOf(bookings)
                /\ UNCHANGED db]_vars

\* C23 witness: a regular user who holds a cancelled booking is answered, for
\* status=cancelled, that booking alone, while another user's active booking exists.
C23_Witness ==
    \E p \in Workers :
        /\ pc[p] = "done" /\ req[p].op = "get_all_bookings"
        /\ req[p].user \in RegularUsers /\ req[p].status = "cancelled"
        /\ Len(resp[p].bookings) = 1
        /\ resp[p].bookings[1].user_id = req[p].user
        /\ resp[p].bookings[1].is_cancelled
        /\ \E i \in 1..Len(bookings) :
                bookings[i].user_id # req[p].user /\ ~bookings[i].is_cancelled

\* the statuses a request is answered with
Statuses == {200, 201, 400, 403, 404, 409, 500}

C25_SlotsMatchBookings ==
    \A s \in ScheduleIds :
        /\ ActiveSlots(s) <= schedules[s].max_slots
        /\ \A u \in Users : Cardinality(ActiveBookingsOf(u, s)) <= 1
        => schedules[s].booked_slots = ActiveSlots(s)

\* C26: in every reachable state, for every coupon, total_used equals the number of
\* CouponRedemption records of the coupon.  (Stated for the coupons whose redemptions
\* are within max_uses and within uses_per_user for every user, so that the
\* difference is an increment of total_used that was lost.)
C26_TotalUsedMatchesRedemptions ==
    \A c \in CouponIds :
        /\ coupons[c].max_uses = NoneVal
            \/ Cardinality(RedemptionsOf(c)) <= coupons[c].max_uses
        /\ \A u \in Users : UserUses(c, u) <= coupons[c].uses_per_user
        => coupons[c].total_used = Cardinality(RedemptionsOf(c))

\* C27: of two cancel_booking requests for the same active booking that run
\* concurrently, at most one reports success and booked_slots is reduced by the
\* booking's slots at most once: a cancel_booking is answered 200 only in a step
\* before which the booking is still active in the table, and the commit of a
\* cancel_booking for a booking that is already cancelled lowers no booked_slots.
C27_OneCancelSucceeds ==
    [][\A p \in Workers :
        /\ Answers(p, "cancel_booking")
        /\ req[p].booking_id \in 1..Len(bookings)
        /\ bookings[req[p].booking_id].is_cancelled
        => /\ resp'[p].status # 200
           /\ \A s \in ScheduleIds :
                schedules'[s].booked_slots >= schedules[s].booked_slots]_vars

\* the constraints create_coupon enforces on the discount of a coupon
WellFormedDiscount(c) ==
    /\ c.discount_type \in {"percentage", "fixed"}
    /\ c.discount_type = "percentage" => 0 < c.discount_value /\ c.discount_value <= 100
    /\ c.discount_type = "fixed" => c.discount_value > 0

\* C28: after any sequence of create_coupon, generate_bulk_coupons and update_coupon,
\* every coupon has discount_type percentage or fixed, 0 < discount_value <= 100 if
\* percentage and discount_value > 0 if fixed, and every booking has
\* 0 <= discount_applied and final_price <= original_price.
C28_CouponsWellFormed ==
    /\ \A c \in CouponIds : coupons[c] # NoCoupon => WellFormedDiscount(coupons[c])
    /\ \A i \in 1..Len(bookings) :
            /\ 0 <= bookings[i].discount_applied
            /\ bookings[i].final_price <= bookings[i].original_price

\* C29: schedule cancellation is terminal and blocks booking.  In every step taken
\* when a schedule is cancelled, the schedule stays cancelled and inactive, no
\* cancel_schedule on it is answered 200, no booking is added on it and its
\* booked_slots does not increase, also when the create_booking read the schedule
\* before the cancellation committed; and a cancel_schedule answered 200 leaves all
\* booked_slots and bookings unchanged.
C29_CancelledScheduleTerminal ==
    [][/\ \A s \in ScheduleIds :
            schedules[s].is_cancelled =>
                /\ schedules'[s].is_cancelled /\ ~schedules'[s].is_active
                /\ schedules'[s].booked_slots <= schedules[s].booked_slots
                /\ \A i \in (Len(bookings) + 1)..Len(bookings') :
                        bookings'[i].schedule_id # s
                /\ \A p \in Workers :
                        Answers(p, "cancel_schedule") /\ req'[p].schedule_id = s
                            => resp'[p].status # 200
       /\ \A p \in Workers :
            Answers(p, "cancel_schedule") /\ resp'[p].status = 200
                => /\ bookings' = bookings
                   /\ \A s \in ScheduleIds :
                        schedules'[s].booked_slots = schedules[s].booked_slots]_vars

\* a text without a character other than a space
Blank(s) == s = NoneText \/ \A i \in 1..Len(s) : s[i] = " "

\* the verification columns of a row agree with its status
VerificationColumnsAgree(u) ==
    /\ u.verification_status \in {"pending", "approved", "rejected"}
    /\ u.verified_at # NoneVal <=> u.verification_status = "approved"
    /\ u.rejection_reason # NoneText <=> u.verification_status = "rejected"
    /\ u.rejection_reason # NoneText => ~Blank(u.rejection_reason)

\* C30: with one request handled at a time, after signup and any sequence of admin
\* approve, reject and reset requests a dive operator's verified_at is set exactly
\* when the status is approved and rejection_reason exactly when it is rejected;
\* approving an approved operator and rejecting without a non-blank reason fail and
\* change nothing; create_store answers 201, and a store appears, only for an
\* admin or a dive operator who is approved at that moment.
C30_OperatorVerification ==
    [][ /\ \A u \in DiveOperators : users'[u] # NoUser => VerificationColumnsAgree(users'[u])
        /\ \A p \in Workers :
            /\ (/\ Answers(p, "approve_dive_operator")
                /\ is_approved(FindOperator(req'[p].target)))
               => resp'[p].status >= 400 /\ UNCHANGED db
            /\ (Answers(p, "reject_dive_operator") /\ Blank(req'[p].text))
               => resp'[p].status >= 400 /\ UNCHANGED db
            /\ (Answers(p, "create_store") /\ resp'[p].status = 201)
               => \/ role(req'[p].user) = "admin"
                  \/ /\ role(req'[p].user) = "dive_operator"
                     /\ is_approved(users[req'[p].user])
        /\ stores' # stores
           => \E p \in Workers : Answers(p, "create_store") /\ resp'[p].status = 201
      ]_vars

\* a rejected operator keeps the store created while approved
C30_Witness ==
    /\ \E p \in Workers :
        pc[p] = "done" /\ req[p].op = "reject_dive_operator" /\ resp[p].status = 200
    /\ users[OperatorUser].verification_status = "rejected"
    /\ users[OperatorUser].rejection_reason = <<"d">>
    /\ \E i \in 1..Len(stores) : stores[i].owner_id = OperatorUser

====
